---- MODULE Spec2Model ----
(***************************************************************************)
(* A model of the multi-line terminal editor component                     *)
(* (packages/tui/src/components/editor.ts).                                *)
(*                                                                         *)
(* A JavaScript string is modelled as the sequence of its UTF-16 code      *)
(* units (natural numbers), so that .length, .slice, charCodeAt and the    *)
(* cursor column (a code-unit offset) mean here what they mean in the      *)
(* source.  Indices of the source are 0-based; TLA+ sequences are 1-based, *)
(* the helpers below do the shift.                                         *)
(***************************************************************************)
EXTENDS Integers, Sequences, FiniteSets, TLC

\* ------------------------------------------------------------------------
\* JavaScript string primitives used by the editor
\* ------------------------------------------------------------------------

Min(a, b) == IF a <= b THEN a ELSE b
Max(a, b) == IF a >= b THEN a ELSE b

\* String.prototype.slice(a, b): negative indices count from the end.
JsSlice(s, a, b) ==
    LET n    == Len(s)
        from == IF a < 0 THEN Max(n + a, 0) ELSE Min(a, n)
        to   == IF b < 0 THEN Max(n + b, 0) ELSE Min(b, n)
    IN  SubSeq(s, from + 1, to)

\* s.substring(m - 1, n) for 1-based m: SubSeq clamped to the string
Sub(s, m, n) == SubSeq(s, Max(m, 1), Min(n, Len(s)))

\* String.prototype.slice(a)
JsSliceFrom(s, a) == JsSlice(s, a, Len(s))

\* String.prototype.substring(a, b): negative indices clamp to 0, and the
\* two ends are swapped when a > b.
JsSubstring(s, a, b) ==
    LET n  == Len(s)
        x  == Max(0, Min(a, n))
        y  == Max(0, Min(b, n))
    IN  SubSeq(s, Min(x, y) + 1, Max(x, y))

\* s[i] of the source: the one-unit string at 0-based index i, or undefined
\* (modelled as the empty sequence, which is falsy like undefined).
JsCharAt(s, i) == IF i >= 0 /\ i < Len(s) THEN <<s[i + 1]>> ELSE <<>>

\* s.startsWith(p)
StartsWith(s, p) == Len(p) <= Len(s) /\ SubSeq(s, 1, Len(p)) = p

\* s.indexOf(p): 0-based index of the first occurrence, -1 when absent.
IndexOf(s, p) ==
    LET hits == {i \in 0..(Len(s) - Len(p)) : SubSeq(s, i + 1, i + Len(p)) = p}
    IN  IF hits = {} THEN -1 ELSE CHOOSE i \in hits : \A j \in hits : i <= j

\* s.includes(p)
Includes(s, p) == IndexOf(s, p) # -1

\* s.replace(p, r) with a string pattern: the first occurrence only.
ReplaceFirst(s, p, r) ==
    LET i == IndexOf(s, p)
    IN  IF i = -1 THEN s
        ELSE SubSeq(s, 1, i) \o r \o SubSeq(s, i + Len(p) + 1, Len(s))

\* s.replace(/p/g, r) for a literal pattern p: every occurrence, left to right.
RECURSIVE ReplaceAll(_, _, _)
ReplaceAll(s, p, r) ==
    LET i == IndexOf(s, p)
    IN  IF i = -1 \/ p = <<>> THEN s
        ELSE SubSeq(s, 1, i) \o r
             \o ReplaceAll(SubSeq(s, i + Len(p) + 1, Len(s)), p, r)

\* s.split("\n"): at least one piece, the empty string splits to [""].
RECURSIVE SplitLines(_)
SplitLines(s) ==
    LET i == IndexOf(s, <<10>>)
    IN  IF i = -1 THEN <<s>>
        ELSE <<SubSeq(s, 1, i)>> \o SplitLines(SubSeq(s, i + 2, Len(s)))

\* lines.join("\n")
RECURSIVE JoinLines(_)
JoinLines(ls) ==
    IF ls = <<>> THEN <<>>
    ELSE IF Len(ls) = 1 THEN ls[1]
    ELSE ls[1] \o <<10>> \o JoinLines(Tail(ls))

\* The code units String.prototype.trim and the regex class \s treat as
\* white space.
JsWhiteSpace ==
    {9, 10, 11, 12, 13, 32, 160, 5760, 8232, 8233, 8239, 8287, 12288, 65279}
    \cup (8192..8202)

RECURSIVE TrimStart(_)
TrimStart(s) ==
    IF s # <<>> /\ s[1] \in JsWhiteSpace THEN TrimStart(Tail(s)) ELSE s

RECURSIVE TrimEnd(_)
TrimEnd(s) ==
    IF s # <<>> /\ s[Len(s)] \in JsWhiteSpace
    THEN TrimEnd(SubSeq(s, 1, Len(s) - 1)) ELSE s

Trim(s) == TrimEnd(TrimStart(s))

\* Decimal digits of a natural number, as the template literal `${n}` gives.
RECURSIVE Decimal(_)
Decimal(n) ==
    IF n < 10 THEN <<48 + n>> ELSE Decimal(n \div 10) \o <<48 + (n % 10)>>

\* Concatenation of a sequence of strings.
RECURSIVE Concat(_)
Concat(ss) == IF ss = <<>> THEN <<>> ELSE ss[1] \o Concat(Tail(ss))

\* text.replace(/\r\n/g, "\n").replace(/\r/g, "\n")
NormalizeNewlines(s) == ReplaceAll(ReplaceAll(s, <<13, 10>>, <<10>>), <<13>>, <<10>>)

\* ------------------------------------------------------------------------
\* Grapheme segmentation, visible width and character classes (utils.ts)
\* ------------------------------------------------------------------------

IsHighSurrogate(c) == c >= 55296 /\ c <= 56319
IsLowSurrogate(c)  == c >= 56320 /\ c <= 57343

\* Code units that extend the grapheme cluster to their left (combining
\* marks and variation selectors).
IsExtend(c) == (c >= 768 /\ c <= 879) \/ c = 65039

IsControl(c) == c < 32 \/ c = 127

\* Length in code units of the first grapheme cluster of a non-empty string.
RECURSIVE ExtendRun(_, _)
ExtendRun(s, i) ==
    IF i < Len(s) /\ IsExtend(s[i + 1]) THEN ExtendRun(s, i + 1) ELSE i

FirstGraphemeLen(s) ==
    IF Len(s) >= 2 /\ s[1] = 13 /\ s[2] = 10 THEN 2
    ELSE IF IsControl(s[1]) THEN 1
    ELSE IF Len(s) >= 2 /\ IsHighSurrogate(s[1]) /\ IsLowSurrogate(s[2])
         THEN ExtendRun(s, 2)
    ELSE ExtendRun(s, 1)

\* [...segmenter.segment(s)].map(x => x.segment)
RECURSIVE Segment(_)
Segment(s) ==
    IF s = <<>> THEN <<>>
    ELSE LET k == FirstGraphemeLen(s)
         IN  <<SubSeq(s, 1, k)>> \o Segment(SubSeq(s, k + 1, Len(s)))

\* for (const char of s): iteration by code point.
RECURSIVE CodePoints(_)
CodePoints(s) ==
    IF s = <<>> THEN <<>>
    ELSE LET k == IF Len(s) >= 2 /\ IsHighSurrogate(s[1]) /\ IsLowSurrogate(s[2])
                  THEN 2 ELSE 1
         IN  <<SubSeq(s, 1, k)>> \o CodePoints(SubSeq(s, k + 1, Len(s)))

\* Terminal columns of one grapheme cluster: East-Asian wide and emoji
\* clusters take two, zero-width and control clusters none, a tab three.
GraphemeWidth(g) ==
    IF g = <<>> THEN 0
    ELSE IF g[1] = 9 THEN 3
    ELSE IF IsControl(g[1]) \/ IsExtend(g[1]) \/ g[1] = 8203 \/ g[1] = 8205 THEN 0
    ELSE IF IsHighSurrogate(g[1]) /\ Len(g) >= 2 THEN 2
    ELSE IF (g[1] >= 4352 /\ g[1] <= 4447) \/ (g[1] >= 11904 /\ g[1] <= 42191)
            \/ (g[1] >= 44032 /\ g[1] <= 55203) \/ (g[1] >= 63744 /\ g[1] <= 64255)
            \/ (g[1] >= 65280 /\ g[1] <= 65376) THEN 2
    ELSE 1

RECURSIVE SumWidths(_)
SumWidths(gs) == IF gs = <<>> THEN 0 ELSE GraphemeWidth(gs[1]) + SumWidths(Tail(gs))

visibleWidth(s) == SumWidths(Segment(s))

\* /\s/.test(g)
isWhitespaceChar(g) == \E i \in 1..Len(g) : g[i] \in JsWhiteSpace

\* The ASCII punctuation class of utils.ts: (){}[]<>.,;:'"!?+-=*/\|&%^$#@~`
PunctuationUnits ==
    {40, 41, 123, 125, 91, 93, 60, 62, 46, 44, 59, 58, 39, 34, 33, 63, 43, 45,
     61, 42, 47, 92, 124, 38, 37, 94, 36, 35, 64, 126, 96}

isPunctuationChar(g) == \E i \in 1..Len(g) : g[i] \in PunctuationUnits

\* ------------------------------------------------------------------------
\* wordWrapLine
\* ------------------------------------------------------------------------

Chunk(text, startIndex, endIndex) ==
    [text |-> text, startIndex |-> startIndex, endIndex |-> endIndex]

Token(text, startIndex, endIndex, isWhitespace) ==
    [text |-> text, startIndex |-> startIndex, endIndex |-> endIndex,
     isWhitespace |-> isWhitespace]

\* One iteration of the loop over the graphemes of the line that builds the
\* tokens: acc holds tokens, currentToken, tokenStart, inWhitespace and
\* charIndex; gws is whether the grapheme is white space.
TokenizeStart(acc, gws) ==
    IF acc.currentToken = <<>>
    THEN [acc EXCEPT !.inWhitespace = gws, !.tokenStart = acc.charIndex]
    ELSE IF gws # acc.inWhitespace
    THEN [acc EXCEPT
            !.tokens = Append(acc.tokens,
                Token(acc.currentToken, acc.tokenStart, acc.charIndex,
                      acc.inWhitespace)),
            !.currentToken = <<>>,
            !.tokenStart = acc.charIndex,
            !.inWhitespace = gws]
    ELSE acc

TokenizeAdd(acc, grapheme) ==
    [acc EXCEPT !.currentToken = acc.currentToken \o grapheme,
                !.charIndex = acc.charIndex + Len(grapheme)]

RECURSIVE TokenizeLoop(_, _)
TokenizeLoop(gs, acc) ==
    IF gs = <<>> THEN acc
    ELSE TokenizeLoop(Tail(gs),
             TokenizeAdd(TokenizeStart(acc, isWhitespaceChar(gs[1])), gs[1]))

\* The push of the last token after the loop
TokenizeEnd(acc) ==
    IF acc.currentToken # <<>>
    THEN Append(acc.tokens,
             Token(acc.currentToken, acc.tokenStart, acc.charIndex, acc.inWhitespace))
    ELSE acc.tokens

\* The tokens of a line: alternating white-space and non-white-space runs.
Tokenize(line) ==
    TokenizeEnd(TokenizeLoop(Segment(line),
                    [tokens |-> <<>>, currentToken |-> <<>>, tokenStart |-> 0,
                     inWhitespace |-> FALSE, charIndex |-> 0]))

\* Breaking one over-long token by grapheme: acc holds chunks, tokenChunk,
\* tokenChunkWidth, tokenChunkStart and tokenCharIndex; gw is the width of
\* the grapheme.
BreakTokenStep(acc, grapheme, gw, maxWidth) ==
    IF acc.tokenChunkWidth + gw > maxWidth /\ acc.tokenChunk # <<>>
    THEN [acc EXCEPT
            !.chunks = Append(acc.chunks,
                Chunk(acc.tokenChunk, acc.tokenChunkStart, acc.tokenCharIndex)),
            !.tokenChunk = grapheme,
            !.tokenChunkWidth = gw,
            !.tokenChunkStart = acc.tokenCharIndex,
            !.tokenCharIndex = acc.tokenCharIndex + Len(grapheme)]
    ELSE [acc EXCEPT
            !.tokenChunk = acc.tokenChunk \o grapheme,
            !.tokenChunkWidth = acc.tokenChunkWidth + gw,
            !.tokenCharIndex = acc.tokenCharIndex + Len(grapheme)]

RECURSIVE BreakTokenLoop(_, _, _)
BreakTokenLoop(gs, maxWidth, acc) ==
    IF gs = <<>> THEN acc
    ELSE BreakTokenLoop(Tail(gs), maxWidth,
             BreakTokenStep(acc, gs[1], visibleWidth(gs[1]), maxWidth))

\* A token wider than maxWidth: push the current chunk, ...
BreakTokenPush(acc, token) ==
    IF acc.currentChunk # <<>>
    THEN [acc EXCEPT
            !.chunks = Append(acc.chunks,
                Chunk(acc.currentChunk, acc.chunkStartIndex, token.startIndex)),
            !.currentChunk = <<>>,
            !.currentWidth = 0,
            !.chunkStartIndex = token.startIndex,
            !.atLineStart = FALSE]
    ELSE [acc EXCEPT !.atLineStart = FALSE]

\* ... and keep what remains of the broken token as the new current chunk
BreakTokenKeep(pushed, b) ==
    IF b.tokenChunk # <<>>
    THEN [pushed EXCEPT !.chunks = b.chunks,
                        !.currentChunk = b.tokenChunk,
                        !.currentWidth = b.tokenChunkWidth,
                        !.chunkStartIndex = b.tokenChunkStart]
    ELSE [pushed EXCEPT !.chunks = b.chunks]

BreakToken(pushed, token, maxWidth) ==
    BreakTokenKeep(pushed,
        BreakTokenLoop(Segment(token.text), maxWidth,
            [chunks |-> pushed.chunks, tokenChunk |-> <<>>, tokenChunkWidth |-> 0,
             tokenChunkStart |-> token.startIndex,
             tokenCharIndex |-> token.startIndex]))

\* The chunks once the current chunk, trimmed to trimmedChunk, is closed
CloseChunk(acc, trimmedChunk) ==
    IF trimmedChunk # <<>> \/ Len(acc.chunks) = 0
    THEN Append(acc.chunks,
             Chunk(trimmedChunk, acc.chunkStartIndex,
                   acc.chunkStartIndex + Len(acc.currentChunk)))
    ELSE acc.chunks

\* One iteration of the loop over the tokens: acc holds chunks, currentChunk,
\* currentWidth, chunkStartIndex and atLineStart.
WrapTokenOfWidth(token, tokenWidth, maxWidth, acc) ==
    IF acc.atLineStart /\ token.isWhitespace
    THEN [acc EXCEPT !.chunkStartIndex = token.endIndex]
    ELSE IF tokenWidth > maxWidth
    THEN BreakToken(BreakTokenPush(acc, token), token, maxWidth)
    ELSE IF acc.currentWidth + tokenWidth > maxWidth
    THEN IF token.isWhitespace
         THEN [chunks |-> CloseChunk(acc, TrimEnd(acc.currentChunk)),
               currentChunk |-> <<>>, currentWidth |-> 0,
               chunkStartIndex |-> token.endIndex, atLineStart |-> TRUE]
         ELSE [chunks |-> CloseChunk(acc, TrimEnd(acc.currentChunk)),
               currentChunk |-> token.text,
               currentWidth |-> tokenWidth, chunkStartIndex |-> token.startIndex,
               atLineStart |-> FALSE]
    ELSE [acc EXCEPT !.currentChunk = acc.currentChunk \o token.text,
                     !.currentWidth = acc.currentWidth + tokenWidth,
                     !.atLineStart = FALSE]

WrapToken(token, maxWidth, acc) ==
    WrapTokenOfWidth(token, visibleWidth(token.text), maxWidth, acc)

RECURSIVE WrapLoop(_, _, _)
WrapLoop(tokens, maxWidth, acc) ==
    IF tokens = <<>> THEN acc
    ELSE WrapLoop(Tail(tokens), maxWidth, WrapToken(tokens[1], maxWidth, acc))

\* The push of the last chunk after the loop
WrapEnd(acc, line) ==
    IF acc.currentChunk # <<>>
    THEN Append(acc.chunks, Chunk(acc.currentChunk, acc.chunkStartIndex, Len(line)))
    ELSE acc.chunks

\* chunks.length > 0 ? chunks : [{ text: "", startIndex: 0, endIndex: 0 }]
WrapResult(chunks) == IF Len(chunks) > 0 THEN chunks ELSE <<Chunk(<<>>, 0, 0)>>

\* wordWrapLine(line, maxWidth): the chunks of a logical line.
wordWrapLine(line, maxWidth) ==
    IF line = <<>> \/ maxWidth <= 0 THEN <<Chunk(<<>>, 0, 0)>>
    ELSE IF visibleWidth(line) <= maxWidth THEN <<Chunk(line, 0, Len(line))>>
    ELSE WrapResult(WrapEnd(WrapLoop(Tokenize(line), maxWidth,
                                [chunks |-> <<>>, currentChunk |-> <<>>,
                                 currentWidth |-> 0, chunkStartIndex |-> 0,
                                 atLineStart |-> TRUE]),
                            line))

\* ------------------------------------------------------------------------
\* Key bindings (keybindings.ts, keys.ts): the default editor bindings and
\* the byte sequences a terminal sends for them
\* ------------------------------------------------------------------------

KeyEnter     == <<13>>
KeyTab       == <<9>>
KeyEscape    == <<27>>
KeyBackspace == <<127>>
KeyUp        == <<27, 91, 65>>
KeyDown      == <<27, 91, 66>>
KeyRight     == <<27, 91, 67>>
KeyLeft      == <<27, 91, 68>>
KeyHome      == <<27, 91, 72>>
KeyEnd       == <<27, 91, 70>>
KeyDelete    == <<27, 91, 51, 126>>
KeyPageUp    == <<27, 91, 53, 126>>
KeyPageDown  == <<27, 91, 54, 126>>
KeyCtrlA     == <<1>>
KeyCtrlC     == <<3>>
KeyCtrlE     == <<5>>
KeyCtrlK     == <<11>>
KeyCtrlU     == <<21>>
KeyCtrlW     == <<23>>
KeyCtrlS     == <<19>>
KeyAltLeft   == <<27, 98>>
KeyAltRight  == <<27, 102>>
KeyCtrlLeft  == <<27, 91, 49, 59, 53, 68>>
KeyCtrlRight == <<27, 91, 49, 59, 53, 67>>
KeyAltBackspace   == <<27, 127>>
KeyShiftEnter     == <<27, 91, 49, 51, 59, 50, 117>>
KeyShiftSpace     == <<27, 91, 51, 50, 59, 50, 117>>
KeyShiftBackspace == <<27, 91, 49, 50, 55, 59, 50, 117>>
KeyShiftDelete    == <<27, 91, 51, 59, 50, 126>>

\* The byte sequences the shared keybinding table binds to submit: the enter
\* key, until the host installs another table
VARIABLE submitKeys

\* The byte sequences bound to each editor action.
KeyBindings ==
    [copy              |-> {KeyCtrlC},
     selectCancel      |-> {KeyEscape, KeyCtrlC},
     selectUp          |-> {KeyUp},
     selectDown        |-> {KeyDown},
     selectConfirm     |-> {KeyEnter},
     tab               |-> {KeyTab},
     deleteToLineEnd   |-> {KeyCtrlK},
     deleteToLineStart |-> {KeyCtrlU},
     deleteWordBackward |-> {KeyCtrlW, KeyAltBackspace},
     deleteCharBackward |-> {KeyBackspace},
     deleteCharForward |-> {KeyDelete},
     cursorLineStart   |-> {KeyHome, KeyCtrlA},
     cursorLineEnd     |-> {KeyEnd, KeyCtrlE},
     cursorWordLeft    |-> {KeyAltLeft, KeyCtrlLeft},
     cursorWordRight   |-> {KeyAltRight, KeyCtrlRight},
     newLine           |-> {KeyShiftEnter},
     submit            |-> submitKeys,
     cursorUp          |-> {KeyUp},
     cursorDown        |-> {KeyDown},
     cursorRight       |-> {KeyRight},
     cursorLeft        |-> {KeyLeft},
     pageUp            |-> {KeyPageUp},
     pageDown          |-> {KeyPageDown}]

\* kb.matches(data, action)
KbMatches(data, action) == data \in KeyBindings[action]

\* matchesKey(data, key) for the three keys the editor asks for directly
MatchesKey(data, key) ==
    CASE key = "shift+backspace" -> data = KeyShiftBackspace
      [] key = "shift+delete"    -> data = KeyShiftDelete
      [] key = "shift+space"     -> data = KeyShiftSpace
      [] OTHER                   -> FALSE

\* ------------------------------------------------------------------------
\* decodeKittyPrintable
\* ------------------------------------------------------------------------

KITTY_MOD_SHIFT == 1
KITTY_MOD_ALT == 2
KITTY_MOD_CTRL == 4

IsDigit(c) == c >= 48 /\ c <= 57

\* Number of consecutive decimal digits of s from 0-based index i.
RECURSIVE DigitRun(_, _)
DigitRun(s, i) ==
    IF i < Len(s) /\ IsDigit(s[i + 1]) THEN 1 + DigitRun(s, i + 1) ELSE 0

\* Number.parseInt(digits, 10) for a string of decimal digits
RECURSIVE ParseInt(_)
ParseInt(ds) ==
    IF ds = <<>> THEN 0 ELSE 10 * ParseInt(SubSeq(ds, 1, Len(ds) - 1)) + (ds[Len(ds)] - 48)

\* x & bit for a one-bit mask (a power of two) and an integer x >= -1
BitSet(x, bit) == IF x < 0 THEN TRUE ELSE (x \div bit) % 2 = 1

NoMatch == [ok |-> FALSE]

\* An optional group of KITTY_CSI_U_REGEX that starts with the separator sep
\* and holds at least minDigits digits, tried at 0-based index i: the group
\* (present or not), its digits and the index after it.
KittyGroup(s, i, sep, minDigits) ==
    IF i < Len(s) /\ s[i + 1] = sep /\ DigitRun(s, i + 1) >= minDigits
    THEN [present |-> TRUE, digits |-> SubSeq(s, i + 2, i + 1 + DigitRun(s, i + 1)),
          next |-> i + 1 + DigitRun(s, i + 1)]
    ELSE [present |-> FALSE, digits |-> <<>>, next |-> i]

\* data.match(KITTY_CSI_U_REGEX), given the four optional groups that follow
\* the codepoint digits, which end at index n1: the groups codepoint (1),
\* shifted (2) and modifier (4) of the match
KittyGroups(data, n1, g2, g4, g5) ==
    IF g5.next = Len(data) - 1 /\ data[Len(data)] = 117
    THEN [ok |-> TRUE, codepoint |-> SubSeq(data, 3, n1),
          hasShifted |-> g2.present /\ g2.digits # <<>>, shifted |-> g2.digits,
          hasMod |-> g4.present, mod |-> g4.digits]
    ELSE NoMatch

KittyModifier(data, n1, g2, g4) ==
    KittyGroups(data, n1, g2, g4, KittyGroup(data, g4.next, 58, 1))

KittyBase(data, n1, g2, g3) ==
    KittyModifier(data, n1, g2, KittyGroup(data, g3.next, 59, 1))

KittyShifted(data, n1, g2) ==
    KittyBase(data, n1, g2, KittyGroup(data, g2.next, 58, 1))

KittyCodepoint(data, n1) == KittyShifted(data, n1, KittyGroup(data, n1, 58, 0))

KittyMatch(data) ==
    IF ~(Len(data) >= 4 /\ data[1] = 27 /\ data[2] = 91 /\ DigitRun(data, 2) >= 1)
    THEN NoMatch
    ELSE KittyCodepoint(data, 2 + DigitRun(data, 2))

\* String.fromCodePoint(cp); the empty sequence stands for the RangeError
FromCodePoint(cp) ==
    IF cp > 1114111 THEN <<>>
    ELSE IF cp >= 65536
    THEN <<55296 + ((cp - 65536) \div 1024), 56320 + ((cp - 65536) % 1024)>>
    ELSE <<cp>>

\* The codepoint the key stands for
KittyEffectiveCodepoint(m, modifier) ==
    IF BitSet(modifier, KITTY_MOD_SHIFT) /\ m.hasShifted
    THEN ParseInt(m.shifted) ELSE ParseInt(m.codepoint)

KittyPrintable(effectiveCodepoint) ==
    IF effectiveCodepoint < 32 THEN <<>> ELSE FromCodePoint(effectiveCodepoint)

KittyDecodeModified(m, modifier) ==
    IF BitSet(modifier, KITTY_MOD_ALT) \/ BitSet(modifier, KITTY_MOD_CTRL)
    THEN <<>>
    ELSE KittyPrintable(KittyEffectiveCodepoint(m, modifier))

KittyDecode(m) ==
    IF ~m.ok THEN <<>>
    ELSE KittyDecodeModified(m,
             (IF m.hasMod /\ m.mod # <<>> THEN ParseInt(m.mod) ELSE 1) - 1)

\* The decoding that never looks at the shifted codepoint
KittyDecodeUnshifted(m) ==
    IF ~m.ok THEN <<>> ELSE KittyDecode([m EXCEPT !.hasShifted = FALSE])

decodeKittyUnshifted(data) == KittyDecodeUnshifted(KittyMatch(data))

\* decodeKittyPrintable(data): the decoded string, or the empty sequence for
\* undefined
decodeKittyPrintable(data) == KittyDecode(KittyMatch(data))

\* ------------------------------------------------------------------------
\* Autocomplete provider (autocomplete.ts) and selection list
\* (select-list.ts): the editor's two collaborators
\* ------------------------------------------------------------------------

\* The slash commands and the files the provider knows: the commands /a and
\* /aa, and the file reference @a.
ProviderCommands == << <<97>>, <<97, 97>> >>
ProviderFiles == << <<64, 97>> >>

NoSuggestions == [items |-> <<>>, prefix |-> <<>>]

\* The candidates whose text starts with the given prefix, in table order.
RECURSIVE FilterByPrefix(_, _)
FilterByPrefix(cands, prefix) ==
    IF cands = <<>> THEN <<>>
    ELSE (IF StartsWith(cands[1], prefix) THEN <<cands[1]>> ELSE <<>>)
         \o FilterByPrefix(Tail(cands), prefix)

\* text.match(/(?:^|[\s])@[^\s]*$/): the 0-based index of the @ that starts
\* the reference ending at the end of text, or -1.
AtReferenceIndex(text) ==
    LET hits == {i \in 0..(Len(text) - 1) :
                    /\ text[i + 1] = 64
                    /\ (i = 0 \/ text[i] \in JsWhiteSpace)
                    /\ \A j \in (i + 1)..Len(text) : text[j] \notin JsWhiteSpace}
    IN  IF hits = {} THEN -1 ELSE CHOOSE i \in hits : \A j \in hits : i <= j

\* (lines[cursorLine] || "").slice(0, cursorCol)
TextBeforeCursor(lines, cursorLine, cursorCol) ==
    JsSlice(IF cursorLine >= 0 /\ cursorLine < Len(lines)
            THEN lines[cursorLine + 1] ELSE <<>>,
            0, cursorCol)

\* The suggestions made of the items, null when there are none
ItemsOrNone(items, prefix) ==
    IF items = <<>> THEN NoSuggestions ELSE [items |-> items, prefix |-> prefix]

FileSuggestions(prefix) == ItemsOrNone(FilterByPrefix(ProviderFiles, prefix), prefix)

IsSlashCommandText(t) == StartsWith(t, <<47>>) /\ ~Includes(t, <<32>>)

SuggestionsAt(textBeforeCursor, at) ==
    IF at # -1 THEN FileSuggestions(JsSliceFrom(textBeforeCursor, at))
    ELSE IF IsSlashCommandText(textBeforeCursor)
    THEN ItemsOrNone(FilterByPrefix(ProviderCommands, JsSliceFrom(textBeforeCursor, 1)),
                     textBeforeCursor)
    ELSE NoSuggestions

SuggestionsBefore(textBeforeCursor) ==
    SuggestionsAt(textBeforeCursor, AtReferenceIndex(textBeforeCursor))

\* The methods a provider may have or lack
ProviderOptionalMethods == {"shouldTriggerFileCompletion", "getForceFileSuggestions"}

\* provider.getSuggestions(lines, cursorLine, cursorCol)
ProviderGetSuggestions(lines, cursorLine, cursorCol) ==
    SuggestionsBefore(TextBeforeCursor(lines, cursorLine, cursorCol))

\* provider.shouldTriggerFileCompletion(lines, cursorLine, cursorCol)
ProviderShouldTriggerFileCompletion(lines, cursorLine, cursorCol) ==
    ~IsSlashCommandText(Trim(TextBeforeCursor(lines, cursorLine, cursorCol)))

ForceFileSuggestionsAt(textBeforeCursor, at) ==
    IF IsSlashCommandText(Trim(textBeforeCursor)) THEN NoSuggestions
    ELSE IF at = -1 THEN NoSuggestions
    ELSE FileSuggestions(JsSliceFrom(textBeforeCursor, at))

ForceFileSuggestionsBefore(textBeforeCursor) ==
    ForceFileSuggestionsAt(textBeforeCursor, AtReferenceIndex(textBeforeCursor))

\* provider.getForceFileSuggestions(lines, cursorLine, cursorCol): files
\* matching the word that ends at the cursor.
ProviderGetForceFileSuggestions(lines, cursorLine, cursorCol) ==
    ForceFileSuggestionsBefore(TextBeforeCursor(lines, cursorLine, cursorCol))

\* The text a completion writes: a slash command as "/" item " ", a file
\* reference as item " "
CompletionText(item, prefix, beforePrefix) ==
    IF StartsWith(prefix, <<47>>) /\ Trim(beforePrefix) = <<>>
    THEN <<47>> \o item \o <<32>>
    ELSE IF StartsWith(prefix, <<64>>) THEN item \o <<32>>
    ELSE item

CompletionResult(lines, cursorLine, beforePrefix, inserted, afterCursor) ==
    [lines |-> [lines EXCEPT ![cursorLine + 1] = beforePrefix \o inserted \o afterCursor],
     cursorLine |-> cursorLine,
     cursorCol |-> Len(beforePrefix) + Len(inserted)]

CompletionAt(lines, cursorLine, cursorCol, item, prefix, currentLine, beforePrefix) ==
    CompletionResult(lines, cursorLine, beforePrefix,
                     CompletionText(item, prefix, beforePrefix),
                     JsSliceFrom(currentLine, cursorCol))

CompletionInLine(lines, cursorLine, cursorCol, item, prefix, currentLine) ==
    CompletionAt(lines, cursorLine, cursorCol, item, prefix, currentLine,
                 JsSlice(currentLine, 0, cursorCol - Len(prefix)))

\* provider.applyCompletion(lines, cursorLine, cursorCol, item, prefix): the
\* prefix before the cursor is replaced by the item.
ProviderApplyCompletion(lines, cursorLine, cursorCol, item, prefix) ==
    CompletionInLine(lines, cursorLine, cursorCol, item, prefix,
                     IF cursorLine >= 0 /\ cursorLine < Len(lines)
                     THEN lines[cursorLine + 1] ELSE <<>>)

\* The `undefined` value of the autocompleteList field.
NoList == [items |-> <<>>, selectedIndex |-> -1]

\* new SelectList(items, 5, theme)
NewSelectList(items) == [items |-> items, selectedIndex |-> 0]

\* SelectList.handleInput for selectUp / selectDown: the selection wraps.
SelectListHandleInput(list, data) ==
    IF list.items = <<>> THEN list
    ELSE IF KbMatches(data, "selectUp")
    THEN [list EXCEPT !.selectedIndex =
              IF @ = 0 THEN Len(list.items) - 1 ELSE @ - 1]
    ELSE IF KbMatches(data, "selectDown")
    THEN [list EXCEPT !.selectedIndex =
              IF @ = Len(list.items) - 1 THEN 0 ELSE @ + 1]
    ELSE list

\* SelectList.getSelectedItem(): the empty sequence stands for null
SelectListGetSelectedItem(list) ==
    IF list.selectedIndex >= 0 /\ list.selectedIndex < Len(list.items)
    THEN list.items[list.selectedIndex + 1] ELSE <<>>

\* SelectList.render(width): one row per item (at most five), a two-cell
\* selection gutter before the item, cut to the width.
SelectListRender(list, width) ==
    [i \in 1..Min(Len(list.items), 5) |->
        JsSlice(<<32, 32>> \o list.items[i], 0, width)]

\* ------------------------------------------------------------------------
\* The Editor object.  An editor value e is the record of the object's
\* fields; every method is an operator from the editor before to the editor
\* after.  changeCalls and submitCalls log the arguments onChange and
\* onSubmit were invoked with during the current public operation.
\* ------------------------------------------------------------------------

\* Terminal height reported by the host (tui.terminal.rows).
TerminalRows == 10

\* Field initialisers of class Editor
FreshEditor ==
    [lines |-> << <<>> >>, cursorLine |-> 0, cursorCol |-> 0,
     focused |-> FALSE, paddingX |-> 0, borderStyle |-> "rounded",
     lastWidth |-> 80, scrollOffset |-> 0,
     hasProvider |-> FALSE, providerMethods |-> {},
     autocompleteList |-> NoList,
     isAutocompleting |-> FALSE, autocompletePrefix |-> <<>>,
     pastes |-> <<>>, pasteCounter |-> 0,
     pasteBuffer |-> <<>>, isInPaste |-> FALSE, pendingShiftEnter |-> FALSE,
     history |-> <<>>, historyIndex |-> -1,
     disableSubmit |-> FALSE, terminalRows |-> TerminalRows,
     changeCalls |-> <<>>, submitCalls |-> <<>>, sinkCalls |-> <<>>,
     providerFails |-> FALSE, thrown |-> FALSE]

\* this.state.lines[this.state.cursorLine] || ""
CurrentLine(e) ==
    IF e.cursorLine >= 0 /\ e.cursorLine < Len(e.lines)
    THEN e.lines[e.cursorLine + 1] ELSE <<>>

\* lines[i] || "" for a 0-based index i
LineAt(e, i) == IF i >= 0 /\ i < Len(e.lines) THEN e.lines[i + 1] ELSE <<>>

\* this.state.lines[this.state.cursorLine] = text
SetCurrentLine(e, text) == [e EXCEPT !.lines[e.cursorLine + 1] = text]

\* lines.splice(i, 0, text)
SpliceInsert(ls, i, text) == SubSeq(ls, 1, i) \o <<text>> \o SubSeq(ls, i + 1, Len(ls))

\* lines.splice(i, 1)
SpliceRemove(ls, i) == SubSeq(ls, 1, i) \o SubSeq(ls, i + 2, Len(ls))

getText(e) == JoinLines(e.lines)

\* One call of a sink of the host: the sink, its argument, and what
\* getText() returns when called from inside the sink
SinkCall(sink, arg, e) == [sink |-> sink, arg |-> arg, text |-> getText(e)]

\* if (this.onChange) this.onChange(this.getText())
NotifyChange(e) ==
    [e EXCEPT !.changeCalls = Append(@, getText(e)),
              !.sinkCalls = Append(@, SinkCall("change", getText(e), e))]

isEditorEmpty(e) == Len(e.lines) = 1 /\ e.lines[1] = <<>>

\* An error raised by a call of the provider: nothing in the editor catches
\* it, so the statements that would follow are not run and the public
\* operation ends by throwing
Raise(e) == [e EXCEPT !.thrown = TRUE]

\* cancelAutocomplete with the isAutocompleting flag left set
cancelAutocompleteKeepingActive(e) ==
    [e EXCEPT !.autocompleteList = NoList, !.autocompletePrefix = <<>>]

cancelAutocomplete(e) ==
    [e EXCEPT !.isAutocompleting = FALSE, !.autocompleteList = NoList,
              !.autocompletePrefix = <<>>]

\* The common tail of tryTriggerAutocomplete and forceFileAutocomplete
ShowSuggestions(e, suggestions) ==
    IF Len(suggestions.items) > 0
    THEN [e EXCEPT !.autocompletePrefix = suggestions.prefix,
                   !.autocompleteList = NewSelectList(suggestions.items),
                   !.isAutocompleting = TRUE]
    ELSE cancelAutocomplete(e)

tryTriggerAutocomplete(e, explicitTab) ==
    IF ~e.hasProvider THEN e
    ELSE IF explicitTab
            /\ "shouldTriggerFileCompletion" \in e.providerMethods
            /\ ~ProviderShouldTriggerFileCompletion(e.lines, e.cursorLine, e.cursorCol)
    THEN e
    ELSE IF e.providerFails THEN Raise(e)
    ELSE ShowSuggestions(e, ProviderGetSuggestions(e.lines, e.cursorLine, e.cursorCol))

\* The tail of updateAutocomplete clearing only the isAutocompleting flag
\* when no suggestion is left
UpdateSuggestionsKeepingList(e, suggestions) ==
    IF Len(suggestions.items) > 0
    THEN [e EXCEPT !.autocompletePrefix = suggestions.prefix,
                   !.autocompleteList = NewSelectList(suggestions.items)]
    ELSE [e EXCEPT !.isAutocompleting = FALSE]

\* The tail of updateAutocomplete: the list is rebuilt, or the overlay closed
UpdateSuggestions(e, suggestions) ==
    IF Len(suggestions.items) > 0
    THEN [e EXCEPT !.autocompletePrefix = suggestions.prefix,
                   !.autocompleteList = NewSelectList(suggestions.items)]
    ELSE cancelAutocomplete(e)

updateAutocomplete(e) ==
    IF ~e.isAutocompleting \/ ~e.hasProvider THEN e
    ELSE IF e.providerFails THEN Raise(e)
    ELSE UpdateSuggestions(e, ProviderGetSuggestions(e.lines, e.cursorLine, e.cursorCol))

forceFileAutocomplete(e) ==
    IF ~e.hasProvider THEN e
    ELSE IF "getForceFileSuggestions" \notin e.providerMethods
    THEN tryTriggerAutocomplete(e, TRUE)
    ELSE ShowSuggestions(e,
             ProviderGetForceFileSuggestions(e.lines, e.cursorLine, e.cursorCol))

handleSlashCommandCompletion(e) == tryTriggerAutocomplete(e, TRUE)

\* beforeCursor.trimStart().startsWith("/") && !beforeCursor.trimStart().includes(" ")
IsSlashCommandPrefix(trimmedStart) ==
    StartsWith(trimmedStart, <<47>>) /\ ~Includes(trimmedStart, <<32>>)

handleTabCompletion(e) ==
    IF ~e.hasProvider THEN e
    ELSE IF IsSlashCommandPrefix(TrimStart(JsSlice(CurrentLine(e), 0, e.cursorCol)))
    THEN handleSlashCommandCompletion(e)
    ELSE forceFileAutocomplete(e)

\* beforeCursor === "" || beforeCursor === "/" for the trimmed text
IsEmptyOrSlash(beforeCursor) == beforeCursor = <<>> \/ beforeCursor = <<47>>

isAtStartOfMessage(e) == IsEmptyOrSlash(Trim(JsSlice(CurrentLine(e), 0, e.cursorCol)))

\* /[a-zA-Z0-9.\-_]/.test(char)
HasWordLikeUnit(char) ==
    \E i \in 1..Len(char) :
        \/ (char[i] >= 97 /\ char[i] <= 122) \/ (char[i] >= 65 /\ char[i] <= 90)
        \/ IsDigit(char[i]) \/ char[i] \in {46, 45, 95}

\* A slash-command or an @-reference context before the cursor
IsCompletableContext(textBeforeCursor) ==
    \/ StartsWith(TrimStart(textBeforeCursor), <<47>>)
    \/ AtReferenceIndex(textBeforeCursor) # -1

\* The re-trigger test shared by insertCharacter, handleBackspace and
\* handleForwardDelete
RetriggerInContext(e) ==
    IF IsCompletableContext(JsSlice(CurrentLine(e), 0, e.cursorCol))
    THEN tryTriggerAutocomplete(e, FALSE)
    ELSE e

ExitHistory(e) == [e EXCEPT !.historyIndex = -1]

\* textBeforeCursor.length === 1 || charBeforeAt === " " || charBeforeAt === "\t"
AtSignStartsReference(textBeforeCursor) ==
    \/ Len(textBeforeCursor) = 1
    \/ JsCharAt(textBeforeCursor, Len(textBeforeCursor) - 2) = <<32>>
    \/ JsCharAt(textBeforeCursor, Len(textBeforeCursor) - 2) = <<9>>

\* The first half of insertCharacter: the character is written at the
\* cursor and the change sink called
InsertAt(e, char, line) ==
    NotifyChange(
        [SetCurrentLine(ExitHistory(e),
                        JsSlice(line, 0, e.cursorCol) \o char \o JsSliceFrom(line, e.cursorCol))
            EXCEPT !.cursorCol = e.cursorCol + Len(char)])

\* The second half: the overlay is triggered or updated
InsertTrigger(e, char) ==
    IF ~e.isAutocompleting
    THEN IF char = <<47>> /\ isAtStartOfMessage(e)
         THEN tryTriggerAutocomplete(e, FALSE)
         ELSE IF char = <<64>>
         THEN IF AtSignStartsReference(JsSlice(CurrentLine(e), 0, e.cursorCol))
              THEN tryTriggerAutocomplete(e, FALSE) ELSE e
         ELSE IF HasWordLikeUnit(char) THEN RetriggerInContext(e)
         ELSE e
    ELSE updateAutocomplete(e)

insertCharacter(e, char) == InsertTrigger(InsertAt(e, char, CurrentLine(e)), char)

\* for (const char of text) this.insertCharacter(char): the loop state is
\* the editor and the characters still to insert
RECURSIVE InsertLoop(_)
InsertLoop(loop) ==
    IF loop.rest = <<>> \/ loop.editor.thrown THEN loop.editor
    ELSE InsertLoop([editor |-> insertCharacter(loop.editor, loop.rest[1]),
                     rest   |-> Tail(loop.rest)])

InsertEach(e, chars) == InsertLoop([editor |-> e, rest |-> chars])

insertTextAtCursor(e, text) == InsertEach(e, CodePoints(text))

\* The line is split at the cursor: before stays, after becomes a new line
SplitLine(e, before, after) ==
    NotifyChange([e EXCEPT !.lines = SpliceInsert([e.lines EXCEPT ![e.cursorLine + 1] = before],
                                                  e.cursorLine + 1, after),
                           !.cursorLine = e.cursorLine + 1,
                           !.cursorCol = 0])

SplitLineAt(e, currentLine) ==
    SplitLine(e, JsSlice(currentLine, 0, e.cursorCol), JsSliceFrom(currentLine, e.cursorCol))

addNewLine(e) == SplitLineAt(ExitHistory(e), CurrentLine(e))

\* Joining the current line with the previous one (the branch shared by
\* handleBackspace, deleteToStartOfLine and deleteWordBackwards)
JoinWithPrevious(e, previousLine, currentLine) ==
    [e EXCEPT !.lines = SpliceRemove(
                  [e.lines EXCEPT ![e.cursorLine] = previousLine \o currentLine],
                  e.cursorLine),
              !.cursorLine = e.cursorLine - 1,
              !.cursorCol = Len(previousLine)]

MergeWithPreviousLine(e) ==
    JoinWithPrevious(e, LineAt(e, e.cursorLine - 1), CurrentLine(e))

\* Joining the current line with the next one (deleteToEndOfLine and
\* handleForwardDelete at the end of a line)
MergeWithNextLine(e) ==
    [e EXCEPT !.lines = SpliceRemove(
                  [e.lines EXCEPT ![e.cursorLine + 1] =
                       CurrentLine(e) \o LineAt(e, e.cursorLine + 1)],
                  e.cursorLine + 1)]

\* Length of the first grapheme of a string (1 when there is none)
FirstGraphemeLenOr1(s) == IF s = <<>> THEN 1 ELSE FirstGraphemeLen(s)

\* Length of the last of the graphemes gs (1 when there is none)
LastLen(gs) == IF gs = <<>> THEN 1 ELSE Len(gs[Len(gs)])

\* Length of the last grapheme of a string (1 when there is none)
LastGraphemeLen(s) == LastLen(Segment(s))

\* The grapheme of graphemeLength code units before the cursor is removed
DeleteBefore(e, line, graphemeLength) ==
    [SetCurrentLine(e, JsSlice(line, 0, e.cursorCol - graphemeLength)
                       \o JsSliceFrom(line, e.cursorCol))
        EXCEPT !.cursorCol = e.cursorCol - graphemeLength]

BackspaceIn(e, line) ==
    IF e.cursorCol > 0
    THEN DeleteBefore(e, line, LastGraphemeLen(JsSlice(line, 0, e.cursorCol)))
    ELSE IF e.cursorLine > 0 THEN MergeWithPreviousLine(e)
    ELSE e

\* The tail handleBackspace and handleForwardDelete share: the overlay is
\* updated, or re-triggered in a completable context
UpdateOrRetrigger(e) ==
    IF e.isAutocompleting THEN updateAutocomplete(e) ELSE RetriggerInContext(e)

BackspaceAt(e) == UpdateOrRetrigger(NotifyChange(BackspaceIn(e, CurrentLine(e))))

handleBackspace(e) == BackspaceAt(ExitHistory(e))

\* The grapheme of graphemeLength code units after the cursor is removed
DeleteAfter(e, currentLine, graphemeLength) ==
    SetCurrentLine(e, JsSlice(currentLine, 0, e.cursorCol)
                      \o JsSliceFrom(currentLine, e.cursorCol + graphemeLength))

ForwardDeleteIn(e, currentLine) ==
    IF e.cursorCol < Len(currentLine)
    THEN DeleteAfter(e, currentLine,
                     FirstGraphemeLenOr1(JsSliceFrom(currentLine, e.cursorCol)))
    ELSE IF e.cursorLine < Len(e.lines) - 1 THEN MergeWithNextLine(e)
    ELSE e

ForwardDeleteAt(e) == UpdateOrRetrigger(NotifyChange(ForwardDeleteIn(e, CurrentLine(e))))

handleForwardDelete(e) == ForwardDeleteAt(ExitHistory(e))

moveToLineStart(e) == [e EXCEPT !.cursorCol = 0]

moveToLineEnd(e) == [e EXCEPT !.cursorCol = Len(CurrentLine(e))]

DeleteToStartAt(e) ==
    IF e.cursorCol > 0
    THEN [SetCurrentLine(e, JsSliceFrom(CurrentLine(e), e.cursorCol))
             EXCEPT !.cursorCol = 0]
    ELSE IF e.cursorLine > 0 THEN MergeWithPreviousLine(e)
    ELSE e

deleteToStartOfLine(e) == NotifyChange(DeleteToStartAt(ExitHistory(e)))

DeleteToEndAt(e) ==
    IF e.cursorCol < Len(CurrentLine(e))
    THEN SetCurrentLine(e, JsSlice(CurrentLine(e), 0, e.cursorCol))
    ELSE IF e.cursorLine < Len(e.lines) - 1 THEN MergeWithNextLine(e)
    ELSE e

deleteToEndOfLine(e) == NotifyChange(DeleteToEndAt(ExitHistory(e)))

\* Whether the grapheme g is of the kind a word-motion loop consumes: white
\* space, punctuation, or a word character
IsOfKind(g, kind) ==
    CASE kind = "space" -> isWhitespaceChar(g)
      [] kind = "punct" -> isPunctuationChar(g)
      [] OTHER -> ~isWhitespaceChar(g) /\ ~isPunctuationChar(g)

\* The graphemes a loop of moveWordBackwards leaves, popping from the end
RECURSIVE PopWhile(_, _)
PopWhile(gs, kind) ==
    IF gs = <<>> THEN gs
    ELSE IF IsOfKind(gs[Len(gs)], kind) THEN PopWhile(SubSeq(gs, 1, Len(gs) - 1), kind)
    ELSE gs

\* After the white space: a punctuation run or a word run is popped
PopRun(g1) ==
    IF g1 = <<>> THEN g1
    ELSE IF isPunctuationChar(g1[Len(g1)]) THEN PopWhile(g1, "punct")
    ELSE PopWhile(g1, "word")

\* The column the three loops of moveWordBackwards reach from the graphemes
\* g0 before the cursor
WordStartCol(e, g0) ==
    e.cursorCol - (Len(Concat(g0)) - Len(Concat(PopRun(PopWhile(g0, "space")))))

moveWordBackwards(e) ==
    IF e.cursorCol = 0
    THEN IF e.cursorLine > 0
         THEN [e EXCEPT !.cursorLine = e.cursorLine - 1,
                        !.cursorCol = Len(LineAt(e, e.cursorLine - 1))]
         ELSE e
    ELSE [e EXCEPT !.cursorCol =
              WordStartCol(e, Segment(JsSlice(CurrentLine(e), 0, e.cursorCol)))]

\* The same loops of moveWordForwards, from the front
RECURSIVE SkipWhile(_, _)
SkipWhile(gs, kind) ==
    IF gs = <<>> THEN gs
    ELSE IF IsOfKind(gs[1], kind) THEN SkipWhile(Tail(gs), kind)
    ELSE gs

SkipRun(g1) ==
    IF g1 = <<>> THEN g1
    ELSE IF isPunctuationChar(g1[1]) THEN SkipWhile(g1, "punct")
    ELSE SkipWhile(g1, "word")

WordEndCol(e, g0) ==
    e.cursorCol + (Len(Concat(g0)) - Len(Concat(SkipRun(SkipWhile(g0, "space")))))

moveWordForwards(e) ==
    IF e.cursorCol >= Len(CurrentLine(e))
    THEN IF e.cursorLine < Len(e.lines) - 1
         THEN [e EXCEPT !.cursorLine = e.cursorLine + 1, !.cursorCol = 0]
         ELSE e
    ELSE [e EXCEPT !.cursorCol =
              WordEndCol(e, Segment(JsSliceFrom(CurrentLine(e), e.cursorCol)))]

\* The text from deleteFrom to the cursor is removed
DeleteWordFrom(e, currentLine, deleteFrom) ==
    [SetCurrentLine(e, JsSlice(currentLine, 0, deleteFrom)
                       \o JsSliceFrom(currentLine, e.cursorCol))
        EXCEPT !.cursorCol = deleteFrom]

DeleteWordAt(e) ==
    IF e.cursorCol = 0
    THEN IF e.cursorLine > 0 THEN MergeWithPreviousLine(e) ELSE e
    ELSE DeleteWordFrom(e, CurrentLine(e), moveWordBackwards(e).cursorCol)

deleteWordBackwards(e) == NotifyChange(DeleteWordAt(ExitHistory(e)))

\* ------------------------------------------------------------------------
\* Visual line map, cursor motion, history
\* ------------------------------------------------------------------------

VisualLine(logicalLine, startCol, length) ==
    [logicalLine |-> logicalLine, startCol |-> startCol, length |-> length]

\* The visual lines of the chunks of the logical line with 0-based index i
VisualLinesOfChunks(chunks, i) ==
    [k \in 1..Len(chunks) |->
        VisualLine(i, chunks[k].startIndex, chunks[k].endIndex - chunks[k].startIndex)]

\* The visual lines of the logical line with 0-based index i
VisualLinesOf(line, i, width) ==
    IF Len(line) = 0 THEN <<VisualLine(i, 0, 0)>>
    ELSE IF visibleWidth(line) <= width THEN <<VisualLine(i, 0, Len(line))>>
    ELSE VisualLinesOfChunks(wordWrapLine(line, width), i)

RECURSIVE BuildVisualLinesFrom(_, _, _)
BuildVisualLinesFrom(ls, i, width) ==
    IF i >= Len(ls) THEN <<>>
    ELSE VisualLinesOf(ls[i + 1], i, width) \o BuildVisualLinesFrom(ls, i + 1, width)

buildVisualLineMap(e, width) == BuildVisualLinesFrom(e.lines, 0, width)

\* Whether the visual line with 0-based index i holds the cursor
HoldsCursor(e, visualLines, i) ==
    /\ visualLines[i + 1].logicalLine = e.cursorLine
    /\ e.cursorCol - visualLines[i + 1].startCol >= 0
    /\ \/ e.cursorCol - visualLines[i + 1].startCol < visualLines[i + 1].length
       \/ /\ \/ i = Len(visualLines) - 1
             \/ visualLines[i + 2].logicalLine # visualLines[i + 1].logicalLine
          /\ e.cursorCol - visualLines[i + 1].startCol <= visualLines[i + 1].length

\* The least of a set of indices, or the fallback when the set is empty
FirstOr(hits, fallback) ==
    IF hits = {} THEN fallback ELSE CHOOSE i \in hits : \A j \in hits : i <= j

\* findCurrentVisualLine: the 0-based index of the first visual line that
\* holds the cursor; the last visual line when none does.
findCurrentVisualLine(e, visualLines) ==
    FirstOr({i \in 0..(Len(visualLines) - 1) : HoldsCursor(e, visualLines, i)},
            Len(visualLines) - 1)

\* The assignment both moveCursor (vertical) and pageScroll make once the
\* target visual line is known: the column is carried over as an offset
\* into the target segment.
MoveInto(e, targetVL, visualCol) ==
    [e EXCEPT !.cursorLine = targetVL.logicalLine,
              !.cursorCol = Min(targetVL.startCol + Min(visualCol, targetVL.length),
                                Len(LineAt(e, targetVL.logicalLine)))]

MoveToVisualLine(e, visualLines, currentVisualLine, targetVisualLine) ==
    MoveInto(e, visualLines[targetVisualLine + 1],
             e.cursorCol - visualLines[currentVisualLine + 1].startCol)

MoveVerticalFrom(e, visualLines, currentVisualLine, deltaLine) ==
    IF currentVisualLine + deltaLine >= 0
       /\ currentVisualLine + deltaLine < Len(visualLines)
    THEN MoveToVisualLine(e, visualLines, currentVisualLine, currentVisualLine + deltaLine)
    ELSE e

MoveVerticalIn(e, visualLines, deltaLine) ==
    MoveVerticalFrom(e, visualLines, findCurrentVisualLine(e, visualLines), deltaLine)

moveCursorVertical(e, deltaLine) ==
    MoveVerticalIn(e, buildVisualLineMap(e, e.lastWidth), deltaLine)

moveCursorHorizontal(e, deltaCol) ==
    IF deltaCol > 0
    THEN IF e.cursorCol < Len(CurrentLine(e))
         THEN [e EXCEPT !.cursorCol =
                   e.cursorCol + FirstGraphemeLenOr1(JsSliceFrom(CurrentLine(e), e.cursorCol))]
         ELSE IF e.cursorLine < Len(e.lines) - 1
         THEN [e EXCEPT !.cursorLine = e.cursorLine + 1, !.cursorCol = 0]
         ELSE e
    ELSE IF e.cursorCol > 0
         THEN [e EXCEPT !.cursorCol =
                   e.cursorCol - LastGraphemeLen(JsSlice(CurrentLine(e), 0, e.cursorCol))]
         ELSE IF e.cursorLine > 0
         THEN [e EXCEPT !.cursorLine = e.cursorLine - 1,
                        !.cursorCol = Len(LineAt(e, e.cursorLine - 1))]
         ELSE e

MoveHorizontalIf(e, deltaCol) ==
    IF deltaCol # 0 THEN moveCursorHorizontal(e, deltaCol) ELSE e

moveCursor(e, deltaLine, deltaCol) ==
    MoveHorizontalIf(IF deltaLine # 0 THEN moveCursorVertical(e, deltaLine) ELSE e,
                     deltaCol)

\* Math.max(5, Math.floor(terminalRows * 0.3))
PageSize(e) == Max(5, (e.terminalRows * 3) \div 10)

PageScrollFrom(e, visualLines, currentVisualLine, direction) ==
    MoveToVisualLine(e, visualLines, currentVisualLine,
        Max(0, Min(Len(visualLines) - 1, currentVisualLine + direction * PageSize(e))))

PageScrollIn(e, visualLines, direction) ==
    PageScrollFrom(e, visualLines, findCurrentVisualLine(e, visualLines), direction)

pageScroll(e, direction) ==
    PageScrollIn(e, buildVisualLineMap(e, e.lastWidth), direction)

isOnFirstVisualLine(e) ==
    findCurrentVisualLine(e, buildVisualLineMap(e, e.lastWidth)) = 0

IsLastOf(e, visualLines) ==
    findCurrentVisualLine(e, visualLines) = Len(visualLines) - 1

isOnLastVisualLine(e) == IsLastOf(e, buildVisualLineMap(e, e.lastWidth))

\* The buffer becomes the given lines, the cursor at the end of the last
SetLines(e, ls) ==
    NotifyChange([e EXCEPT !.lines = ls,
                           !.cursorLine = Len(ls) - 1,
                           !.cursorCol = Len(ls[Len(ls)]),
                           !.scrollOffset = 0])

\* setTextInternal with only "\r\n" converted
setTextInternalKeepingCR(e, text) ==
    SetLines(e, SplitLines(ReplaceAll(text, <<13, 10>>, <<10>>)))

setTextInternal(e, text) == SetLines(e, SplitLines(NormalizeNewlines(text)))

setText(e, text) == setTextInternal(ExitHistory(e), text)

\* NavigateTo without the upper limit on the new index
NavigateToUnlimited(e, newIndex) ==
    IF newIndex < -1 THEN e
    ELSE setTextInternal([e EXCEPT !.historyIndex = newIndex],
                         IF newIndex = -1 \/ newIndex >= Len(e.history) THEN <<>>
                         ELSE e.history[newIndex + 1])

NavigateTo(e, newIndex) ==
    IF newIndex < -1 \/ newIndex >= Len(e.history) THEN e
    ELSE setTextInternal([e EXCEPT !.historyIndex = newIndex],
                         IF newIndex = -1 THEN <<>> ELSE e.history[newIndex + 1])

\* navigateHistory with the direction taken the other way round
navigateHistoryReversed(e, direction) ==
    IF Len(e.history) = 0 THEN e ELSE NavigateTo(e, e.historyIndex + direction)

navigateHistory(e, direction) ==
    IF Len(e.history) = 0 THEN e ELSE NavigateTo(e, e.historyIndex - direction)

\* Limit of the history list
HistoryLimit == 100

\* history.unshift(trimmed), then history.pop() above the limit
Unshift(hist, trimmed) ==
    IF Len(hist) + 1 > HistoryLimit
    THEN SubSeq(<<trimmed>> \o hist, 1, Len(hist)) ELSE <<trimmed>> \o hist

AddTrimmed(e, trimmed) ==
    IF trimmed = <<>> THEN e
    ELSE IF Len(e.history) > 0 /\ e.history[1] = trimmed THEN e
    ELSE [e EXCEPT !.history = Unshift(e.history, trimmed)]

\* addToHistory without the trim
addToHistoryUntrimmed(e, text) == AddTrimmed(e, text)

addToHistory(e, text) == AddTrimmed(e, Trim(text))

\* ------------------------------------------------------------------------
\* Paste ingestion and paste markers
\* ------------------------------------------------------------------------

\* Thresholds of a large paste
LargePasteLines == 10
LargePasteChars == 1000

\* tabExpandedText: every tab becomes four spaces
ExpandTabs(s) == ReplaceAll(s, <<9>>, <<32, 32, 32, 32>>)

\* .split("").filter(char => char === "\n" || char.charCodeAt(0) >= 32).join("")
FilterPrintable(s) == SelectSeq(s, LAMBDA c : c = 10 \/ c >= 32)

\* /\w/.test(c) for a one-unit string
IsWordUnit(c) ==
    (c >= 97 /\ c <= 122) \/ (c >= 65 /\ c <= 90) \/ IsDigit(c) \/ c = 95

\* "[paste #"
MarkerHead == <<91, 112, 97, 115, 116, 101, 32, 35>>
\* " lines]" and " chars]"
MarkerLinesTail == <<32, 108, 105, 110, 101, 115, 93>>
MarkerCharsTail == <<32, 99, 104, 97, 114, 115, 93>>

\* The marker inserted for a large paste
PasteMarker(pasteId, lineCount, totalChars) ==
    IF lineCount > LargePasteLines
    THEN MarkerHead \o Decimal(pasteId) \o <<32, 43>> \o Decimal(lineCount) \o MarkerLinesTail
    ELSE MarkerHead \o Decimal(pasteId) \o <<32>> \o Decimal(totalChars) \o MarkerCharsTail

\* /^[/~.]/.test(filteredText) and a word character before the cursor: a
\* space is prepended
PrependSpace(e, filteredText) ==
    IF filteredText # <<>> /\ filteredText[1] \in {47, 126, 46}
       /\ e.cursorCol > 0
       /\ JsCharAt(CurrentLine(e), e.cursorCol - 1) # <<>>
       /\ IsWordUnit(JsCharAt(CurrentLine(e), e.cursorCol - 1)[1])
    THEN <<32>> \o filteredText
    ELSE filteredText

\* The text handlePaste works with after cleaning and the file-path space
CleanPaste(e, pastedText) ==
    PrependSpace(e, FilterPrintable(ExpandTabs(NormalizeNewlines(pastedText))))

\* this.pastes.set(pasteId, text): a Map keeps insertion order
PastesSet(pastes, pasteId, text) ==
    IF \E i \in 1..Len(pastes) : pastes[i].id = pasteId
    THEN [i \in 1..Len(pastes) |->
             IF pastes[i].id = pasteId THEN [id |-> pasteId, content |-> text]
             ELSE pastes[i]]
    ELSE Append(pastes, [id |-> pasteId, content |-> text])

\* The lines array the multi-line branch of handlePaste builds
SplicedLines(e, pastedLines, beforeCursor, afterCursor) ==
    SubSeq(e.lines, 1, e.cursorLine)
    \o <<beforeCursor \o pastedLines[1]>>
    \o SubSeq(pastedLines, 2, Len(pastedLines) - 1)
    \o <<pastedLines[Len(pastedLines)] \o afterCursor>>
    \o SubSeq(e.lines, e.cursorLine + 2, Len(e.lines))

\* The multi-line branch of handlePaste
SpliceLines(e, pastedLines) ==
    NotifyChange([e EXCEPT !.lines = SplicedLines(e, pastedLines,
                                         JsSlice(CurrentLine(e), 0, e.cursorCol),
                                         JsSliceFrom(CurrentLine(e), e.cursorCol)),
                           !.cursorLine = e.cursorLine + Len(pastedLines) - 1,
                           !.cursorCol = Len(pastedLines[Len(pastedLines)])])

\* The large-paste branch with the id taken from the size of the paste
\* table's last key instead of the counter incremented: the id of the
\* previous paste is used again
StorePasteUnderLastId(e, filteredText, pastedLines, pasteId) ==
    InsertEach([e EXCEPT !.pasteCounter = pasteId,
                         !.pastes = PastesSet(e.pastes, Max(1, pasteId - 1), filteredText)],
               CodePoints(PasteMarker(pasteId, Len(pastedLines), Len(filteredText))))

\* The large-paste branch: the paste is stored and its marker typed
StorePaste(e, filteredText, pastedLines, pasteId) ==
    InsertEach([e EXCEPT !.pasteCounter = pasteId,
                         !.pastes = PastesSet(e.pastes, pasteId, filteredText)],
               CodePoints(PasteMarker(pasteId, Len(pastedLines), Len(filteredText))))

PasteLines(e, filteredText, pastedLines) ==
    IF Len(pastedLines) > LargePasteLines \/ Len(filteredText) > LargePasteChars
    THEN StorePaste(e, filteredText, pastedLines, e.pasteCounter + 1)
    ELSE IF Len(pastedLines) = 1
    THEN InsertEach(e, CodePoints(pastedLines[1]))
    ELSE SpliceLines(e, pastedLines)

PasteFiltered(e, filteredText) == PasteLines(e, filteredText, SplitLines(filteredText))

PasteClean(e, pastedText) == PasteFiltered(e, CleanPaste(e, pastedText))

handlePaste(e, pastedText) == PasteClean(ExitHistory(e), pastedText)

\* The optional group ( (\+\d+ lines|\d+ chars))? and the closing bracket,
\* at the 1-based position j + 1 of s, after a head of headLen code units;
\* plusDigits and digits are the digit runs the two alternatives would read.
MarkerTailLen(s, j, headLen, plusDigits, digits) ==
    IF Len(s) < j + 1 THEN 0
    ELSE IF s[j + 1] = 93 THEN headLen + 1
    ELSE IF s[j + 1] # 32 THEN 0
    ELSE IF Len(s) >= j + 2 /\ s[j + 2] = 43 /\ plusDigits >= 1
            /\ Sub(s, j + 3 + plusDigits, j + 9 + plusDigits) = MarkerLinesTail
    THEN headLen + 2 + plusDigits + 7
    ELSE IF digits >= 1 /\ Sub(s, j + 2 + digits, j + 8 + digits) = MarkerCharsTail
    THEN headLen + 1 + digits + 7
    ELSE 0

MarkerMatchHead(s, i, head, j) ==
    IF Sub(s, i + 1, j) # head THEN 0
    ELSE MarkerTailLen(s, j, Len(head), DigitRun(s, j + 2), DigitRun(s, j + 1))

\* Length of the match of /\[paste #ID( (\+\d+ lines|\d+ chars))?\]/ at the
\* 0-based index i of s; 0 when there is none.
MarkerMatchLen(s, i, pasteId) ==
    MarkerMatchHead(s, i, MarkerHead \o Decimal(pasteId),
                    i + Len(MarkerHead) + Len(Decimal(pasteId)))

\* What a two-character pattern $c of a replacement string stands for:
\* $$, $&, $`, $' and the capture groups $1 and $2
Substitution(c, s, i, mlen, group1) ==
    CASE c = 36 -> <<36>>
      [] c = 38 -> SubSeq(s, i + 1, i + mlen)
      [] c = 96 -> SubSeq(s, 1, i)
      [] c = 39 -> SubSeq(s, i + mlen + 1, Len(s))
      [] c = 49 -> group1
      [] c = 50 -> JsSliceFrom(group1, 1)
      [] OTHER  -> <<36, c>>

\* The replacement text of String.prototype.replace for one match
RECURSIVE ReplacementText(_, _, _, _, _)
ReplacementText(content, s, i, mlen, group1) ==
    IF content = <<>> THEN <<>>
    ELSE IF content[1] # 36 \/ Len(content) = 1
    THEN <<content[1]>> \o ReplacementText(Tail(content), s, i, mlen, group1)
    ELSE IF content[2] = 48 /\ Len(content) >= 3 /\ content[3] \in {49, 50}
    THEN Substitution(content[3], s, i, mlen, group1)
         \o ReplacementText(SubSeq(content, 4, Len(content)), s, i, mlen, group1)
    ELSE Substitution(content[2], s, i, mlen, group1)
         \o ReplacementText(SubSeq(content, 3, Len(content)), s, i, mlen, group1)

\* result.replace(markerRegex, pasteContent) with the g flag, scanning from
\* the 0-based index i
RECURSIVE ReplaceMarkersFrom(_, _, _, _)

ReplaceMatch(s, i, pasteId, content, mlen, headLen) ==
    IF mlen = 0 THEN <<s[i + 1]>> \o ReplaceMarkersFrom(s, i + 1, pasteId, content)
    ELSE ReplacementText(content, s, i, mlen, SubSeq(s, i + headLen + 1, i + mlen - 1))
         \o ReplaceMarkersFrom(s, i + mlen, pasteId, content)

ReplaceMarkersFrom(s, i, pasteId, content) ==
    IF i >= Len(s) THEN <<>>
    ELSE ReplaceMatch(s, i, pasteId, content, MarkerMatchLen(s, i, pasteId),
                      Len(MarkerHead) + Len(Decimal(pasteId)))

\* The loop over this.pastes that expands the markers, in insertion order
RECURSIVE ExpandMarkers(_, _)
ExpandMarkers(result, pastes) ==
    IF pastes = <<>> THEN result
    ELSE ExpandMarkers(ReplaceMarkersFrom(result, 0, pastes[1].id, pastes[1].content),
                       Tail(pastes))

getExpandedText(e) == ExpandMarkers(JoinLines(e.lines), e.pastes)

\* The text the submit branch of handleInput hands to onSubmit
SubmitResult(e) == ExpandMarkers(Trim(JoinLines(e.lines)), e.pastes)

\* SubmitReset with the paste table and the paste counter left as they are
SubmitResetKeepingPastes(e) ==
    [e EXCEPT !.lines = << <<>> >>, !.cursorLine = 0, !.cursorCol = 0,
              !.historyIndex = -1, !.scrollOffset = 0]

\* SubmitReset that clears the history as well
SubmitResetClearingHistory(e) ==
    [e EXCEPT !.lines = << <<>> >>, !.cursorLine = 0, !.cursorCol = 0,
              !.pastes = <<>>, !.pasteCounter = 0, !.history = <<>>,
              !.historyIndex = -1, !.scrollOffset = 0]

\* The reset the submit branch performs before it calls the sinks
SubmitReset(e) ==
    [e EXCEPT !.lines = << <<>> >>, !.cursorLine = 0, !.cursorCol = 0,
              !.pastes = <<>>, !.pasteCounter = 0,
              !.historyIndex = -1, !.scrollOffset = 0]

\* onChange(""), then onSubmit(result)
SubmitNotify(e, result) ==
    [e EXCEPT !.changeCalls = Append(@, <<>>),
              !.submitCalls = Append(@, result),
              !.sinkCalls = @ \o <<SinkCall("change", <<>>, e),
                                    SinkCall("submit", result, e)>>]

\* The submit branch with the sinks called before the reset
SubmitNotifyingFirst(e) == SubmitReset(SubmitNotify(e, SubmitResult(e)))

\* The submit branch of handleInput, past the disableSubmit guard
Submit(e) == SubmitNotify(SubmitReset(e), SubmitResult(e))

\* ------------------------------------------------------------------------
\* handleInput
\* ------------------------------------------------------------------------

\* "\x1b[200~" and "\x1b[201~"
PasteStart == <<27, 91, 50, 48, 48, 126>>
PasteEnd   == <<27, 91, 50, 48, 49, 126>>

\* The new-line condition of handleInput
IsNewLineInput(data) ==
    \/ KbMatches(data, "newLine")
    \/ (Len(data) > 1 /\ data[1] = 10)
    \/ data = <<27, 13>>
    \/ data = <<27, 91, 49, 51, 59, 50, 126>>
    \/ (Len(data) > 1 /\ Includes(data, <<27>>) /\ Includes(data, <<13>>))
    \/ data = <<10>>
    \/ data = <<92, 13>>

\* The result of applyCompletion is written to the state
WriteCompletion(e, result) ==
    [e EXCEPT !.lines = result.lines, !.cursorLine = result.cursorLine,
              !.cursorCol = result.cursorCol]

\* Applying the selected completion (the tab and selectConfirm branches)
ApplySelected(e) ==
    WriteCompletion(e,
        ProviderApplyCompletion(e.lines, e.cursorLine, e.cursorCol,
            SelectListGetSelectedItem(e.autocompleteList), e.autocompletePrefix))

HasSelection(e) == SelectListGetSelectedItem(e.autocompleteList) # <<>> /\ e.hasProvider

\* The deltas of the four arrow keys, in the order handleInput tests them
ArrowDelta(data) ==
    IF KbMatches(data, "cursorUp") THEN [deltaLine |-> -1, deltaCol |-> 0]
    ELSE IF KbMatches(data, "cursorDown") THEN [deltaLine |-> 1, deltaCol |-> 0]
    ELSE IF KbMatches(data, "cursorRight") THEN [deltaLine |-> 0, deltaCol |-> 1]
    ELSE [deltaLine |-> 0, deltaCol |-> -1]

IsArrow(data) ==
    \/ KbMatches(data, "cursorUp") \/ KbMatches(data, "cursorDown")
    \/ KbMatches(data, "cursorRight") \/ KbMatches(data, "cursorLeft")

\* cursorUp browsing from the first visual line of any buffer
BrowsesHistoryFromAnyBuffer(e, data) ==
    IF KbMatches(data, "cursorUp")
    THEN isOnFirstVisualLine(e)
    ELSE KbMatches(data, "cursorDown") /\ e.historyIndex > -1 /\ isOnLastVisualLine(e)

\* Whether cursorUp or cursorDown browses the history instead of moving
BrowsesHistory(e, data) ==
    IF KbMatches(data, "cursorUp")
    THEN isEditorEmpty(e) \/ (e.historyIndex > -1 /\ isOnFirstVisualLine(e))
    ELSE KbMatches(data, "cursorDown") /\ e.historyIndex > -1 /\ isOnLastVisualLine(e)

\* The "Arrow key navigation (with history support)" branches
HandleArrow(e, data, delta) ==
    IF BrowsesHistory(e, data) THEN navigateHistory(e, delta.deltaLine)
    ELSE moveCursor(e, delta.deltaLine, delta.deltaCol)

\* The character the last three branches insert: a space for shift+space,
\* the decoded Kitty printable, or the data itself from code 32 up
InsertedChar(data, kittyPrintable) ==
    IF MatchesKey(data, "shift+space") THEN <<32>>
    ELSE IF kittyPrintable # <<>> THEN kittyPrintable
    ELSE IF Len(data) > 0 /\ data[1] >= 32 THEN data
    ELSE <<>>

InsertIfAny(e, char) == IF char = <<>> THEN e ELSE insertCharacter(e, char)

\* handleInput from the "Tab - trigger completion" test to its end
HandleKey(e, data) ==
    IF KbMatches(data, "tab") /\ ~e.isAutocompleting THEN handleTabCompletion(e)
    ELSE IF KbMatches(data, "deleteToLineEnd") THEN deleteToEndOfLine(e)
    ELSE IF KbMatches(data, "deleteToLineStart") THEN deleteToStartOfLine(e)
    ELSE IF KbMatches(data, "deleteWordBackward") THEN deleteWordBackwards(e)
    ELSE IF KbMatches(data, "deleteCharBackward") \/ MatchesKey(data, "shift+backspace")
    THEN handleBackspace(e)
    ELSE IF KbMatches(data, "deleteCharForward") \/ MatchesKey(data, "shift+delete")
    THEN handleForwardDelete(e)
    ELSE IF KbMatches(data, "cursorLineStart") THEN moveToLineStart(e)
    ELSE IF KbMatches(data, "cursorLineEnd") THEN moveToLineEnd(e)
    ELSE IF KbMatches(data, "cursorWordLeft") THEN moveWordBackwards(e)
    ELSE IF KbMatches(data, "cursorWordRight") THEN moveWordForwards(e)
    ELSE IF IsNewLineInput(data) THEN addNewLine(e)
    ELSE IF KbMatches(data, "submit")
    THEN IF e.disableSubmit THEN e ELSE Submit(e)
    ELSE IF IsArrow(data) THEN HandleArrow(e, data, ArrowDelta(data))
    ELSE IF KbMatches(data, "pageUp") \/ KbMatches(data, "pageDown")
    THEN pageScroll(e, IF KbMatches(data, "pageUp") THEN -1 ELSE 1)
    ELSE InsertIfAny(e, InsertedChar(data, decodeKittyPrintable(data)))

\* The outcome of the "Handle autocomplete mode" block: the editor, and
\* whether handleInput returned there
Returned(e) == [editor |-> e, returned |-> TRUE]
FellThrough(e) == [editor |-> e, returned |-> FALSE]

\* After the selected completion is applied: the change sink is called and
\* handleInput returns, whatever the key and the prefix
AfterApplyNeverSubmits(e, data, prefix) == Returned(NotifyChange(e))

\* After the selected completion is applied and the overlay closed: the
\* confirm key of a slash command falls through to submit; otherwise the
\* change sink is called and handleInput returns.
AfterApply(e, data, prefix) ==
    IF ~KbMatches(data, "tab") /\ StartsWith(prefix, <<47>>)
    THEN FellThrough(e)
    ELSE Returned(NotifyChange(e))

\* The "Handle autocomplete mode" block
OverlayBlock(e, data) ==
    IF ~(e.isAutocompleting /\ e.autocompleteList # NoList) THEN FellThrough(e)
    ELSE IF KbMatches(data, "selectCancel") THEN Returned(cancelAutocomplete(e))
    ELSE IF KbMatches(data, "selectUp") \/ KbMatches(data, "selectDown")
    THEN Returned([e EXCEPT !.autocompleteList = SelectListHandleInput(@, data)])
    ELSE IF (KbMatches(data, "tab") \/ KbMatches(data, "selectConfirm")) /\ HasSelection(e)
    THEN IF e.providerFails THEN Returned(Raise(e))
         ELSE AfterApply(cancelAutocomplete(ApplySelected(e)), data, e.autocompletePrefix)
    ELSE IF KbMatches(data, "tab") THEN Returned(e)
    ELSE FellThrough(e)

AfterOverlay(outcome, data) ==
    IF outcome.returned THEN outcome.editor ELSE HandleKey(outcome.editor, data)

\* handleInput from the "Handle autocomplete mode" block to its end
HandleOverlayKey(e, data) == AfterOverlay(OverlayBlock(e, data), data)

\* The held backslash forgotten instead of inserted
FlushBackslashDropped(e) == [e EXCEPT !.pendingShiftEnter = FALSE]

\* A pending backslash that is not followed by "\r" is inserted
FlushBackslash(e) ==
    IF e.pendingShiftEnter
    THEN insertCharacter([e EXCEPT !.pendingShiftEnter = FALSE], <<92>>)
    ELSE e

\* handleInput from the test data === "\\" to its end
AfterFlush(e, data) ==
    IF e.thrown THEN e
    ELSE IF data = <<92>> THEN [e EXCEPT !.pendingShiftEnter = TRUE]
    ELSE IF KbMatches(data, "copy") THEN e
    ELSE HandleOverlayKey(e, data)

\* handleInput from the pendingShiftEnter test to its end
HandleAfterPaste(e, data) ==
    IF e.pendingShiftEnter /\ data = <<13>>
    THEN addNewLine([e EXCEPT !.pendingShiftEnter = FALSE])
    ELSE AfterFlush(FlushBackslash(e), data)

\* The start marker switches the editor to paste mode and is removed from
\* the data
StartPaste(e, data) ==
    IF Includes(data, PasteStart)
    THEN [e EXCEPT !.isInPaste = TRUE, !.pasteBuffer = <<>>]
    ELSE e

StripPasteStart(data) ==
    IF Includes(data, PasteStart) THEN ReplaceFirst(data, PasteStart, <<>>) ELSE data

\* Leaving the paste content with the isInPaste flag still set
PasteEndedKeepingMode(e) ==
    IF e.thrown THEN e ELSE [e EXCEPT !.pasteBuffer = <<>>]

\* The content before the end marker is pasted and paste mode left
PasteEnded(e) ==
    IF e.thrown THEN e ELSE [e EXCEPT !.isInPaste = FALSE, !.pasteBuffer = <<>>]

PasteContent(e, pasteContent) ==
    PasteEnded(IF Len(pasteContent) > 0 THEN handlePaste(e, pasteContent) ELSE e)

RECURSIVE handleInput(_, _)

\* What follows the end marker is handled as further input
HandleRemaining(e, remaining) ==
    IF Len(remaining) > 0 /\ ~e.thrown THEN handleInput(e, remaining) ELSE e

PasteUpTo(e, endIndex) ==
    IF endIndex = -1 THEN e
    ELSE HandleRemaining(PasteContent(e, JsSubstring(e.pasteBuffer, 0, endIndex)),
                         JsSliceFrom(e.pasteBuffer, endIndex + 6))

\* The paste-mode block: the data is buffered and the end marker looked for
Buffered(e) == PasteUpTo(e, IndexOf(e.pasteBuffer, PasteEnd))

AfterPasteStart(e, data) ==
    IF e.isInPaste THEN Buffered([e EXCEPT !.pasteBuffer = @ \o data])
    ELSE HandleAfterPaste(e, data)

\* handleInput(data)
handleInput(e, data) == AfterPasteStart(StartPaste(e, data), StripPasteStart(data))

\* ------------------------------------------------------------------------
\* layoutText and render.  A rendered line is modelled by its visible text
\* (the string with the ANSI styling and the zero-width cursor marker
\* stripped) and by whether it carries the cursor marker.
\* ------------------------------------------------------------------------

\* cursorPos of a layout line without the cursor (undefined)
NoCursorPos == -1000000

LayoutLine(text, hasCursor, cursorPos) ==
    [text |-> text, hasCursor |-> hasCursor, cursorPos |-> cursorPos]

\* The layout line of one chunk of a wrapped logical line
LayoutChunk(chunk, cursorPos, isCurrentLine, isLastChunk) ==
    IF isCurrentLine /\ cursorPos >= chunk.startIndex
       /\ (isLastChunk \/ cursorPos < chunk.endIndex)
    THEN LayoutLine(chunk.text, TRUE,
                    IF isLastChunk THEN cursorPos - chunk.startIndex
                    ELSE Min(cursorPos - chunk.startIndex, Len(chunk.text)))
    ELSE LayoutLine(chunk.text, FALSE, NoCursorPos)

\* The layout lines of one wrapped logical line
LayoutChunks(e, chunks, isCurrentLine) ==
    [k \in 1..Len(chunks) |->
        LayoutChunk(chunks[k], e.cursorCol, isCurrentLine, k = Len(chunks))]

\* The layout lines of one logical line
LayoutOne(e, line, isCurrentLine, contentWidth) ==
    IF visibleWidth(line) <= contentWidth
    THEN IF isCurrentLine THEN <<LayoutLine(line, TRUE, e.cursorCol)>>
         ELSE <<LayoutLine(line, FALSE, NoCursorPos)>>
    ELSE LayoutChunks(e, wordWrapLine(line, contentWidth), isCurrentLine)

RECURSIVE LayoutFrom(_, _, _)
LayoutFrom(e, i, contentWidth) ==
    IF i >= Len(e.lines) THEN <<>>
    ELSE LayoutOne(e, e.lines[i + 1], i = e.cursorLine, contentWidth)
         \o LayoutFrom(e, i + 1, contentWidth)

layoutText(e, contentWidth) ==
    IF Len(e.lines) = 0 \/ (Len(e.lines) = 1 /\ e.lines[1] = <<>>)
    THEN <<LayoutLine(<<>>, TRUE, 0)>>
    ELSE LayoutFrom(e, 0, contentWidth)

\* The corner characters of a border style: top left, top right, bottom
\* left, bottom right
BORDER_STYLES ==
    [rounded |-> [topLeft |-> <<9581>>, topRight |-> <<9582>>,
                  bottomLeft |-> <<9584>>, bottomRight |-> <<9583>>],
     sharp   |-> [topLeft |-> <<9484>>, topRight |-> <<9488>>,
                  bottomLeft |-> <<9492>>, bottomRight |-> <<9496>>],
     none    |-> [topLeft |-> <<>>, topRight |-> <<>>,
                  bottomLeft |-> <<>>, bottomRight |-> <<>>]]

\* The first and last characters are replaced with the corner characters
WithCorners(text, leftChar, rightChar) ==
    IF leftChar = <<>> /\ rightChar = <<>> THEN text
    ELSE leftChar \o JsSlice(text, 1, -1) \o rightChar

formatBorder(e, text, position) ==
    IF Len(text) <= 1 THEN text
    ELSE IF position = "top"
    THEN WithCorners(text, BORDER_STYLES[e.borderStyle].topLeft,
                     BORDER_STYLES[e.borderStyle].topRight)
    ELSE WithCorners(text, BORDER_STYLES[e.borderStyle].bottomLeft,
                     BORDER_STYLES[e.borderStyle].bottomRight)

\* "x".repeat(n)
Repeat(c, n) == [i \in 1..Max(n, 0) |-> c]

\* `─── ↑ ${n} more ` and `─── ↓ ${n} more `
ScrollIndicator(arrow, n) ==
    <<9472, 9472, 9472, 32, arrow, 32>> \o Decimal(n) \o <<32, 109, 111, 114, 101, 32>>

\* indicator + "─".repeat(Math.max(0, remaining))
Ruled(indicator, width) == indicator \o Repeat(9472, width - visibleWidth(indicator))

Bordered(e, width, border, position) ==
    [text |-> IF width > 1 THEN formatBorder(e, border, position) ELSE border,
     marker |-> FALSE]

\* A top or bottom border: the indicator when count > 0, ruled to the width
BorderLine(e, width, count, arrow, position) ==
    Bordered(e, width,
             IF count > 0 THEN Ruled(ScrollIndicator(arrow, count), width)
             ELSE Repeat(9472, width),
             position)

\* What a content row shows: its visible text, its visible width, and
\* whether the cursor marker is in it
Shown(text, width, marker) == [text |-> text, width |-> width, marker |-> marker]

\* before + marker + cursor + restAfter, the cursor on the first grapheme
OnFirstGrapheme(before, after, firstLen) ==
    before \o SubSeq(after, 1, firstLen) \o JsSliceFrom(after, firstLen)

\* The line is at full width: the cursor is shown on the last grapheme
OnLastGrapheme(text, beforeGraphemes, width, emitCursorMarker) ==
    IF Len(beforeGraphemes) > 0
    THEN Shown(Concat(SubSeq(beforeGraphemes, 1, Len(beforeGraphemes) - 1))
               \o beforeGraphemes[Len(beforeGraphemes)],
               width, emitCursorMarker)
    ELSE Shown(text, width, FALSE)

\* The row of the layout line with the cursor
WithCursor(text, before, after, width, contentWidth, emitCursorMarker) ==
    IF Len(after) > 0
    THEN Shown(OnFirstGrapheme(before, after, FirstGraphemeLenOr1(after)),
               width, emitCursorMarker)
    ELSE IF width < contentWidth
    THEN Shown(before \o <<32>>, width + 1, emitCursorMarker)
    ELSE OnLastGrapheme(text, Segment(before), width, emitCursorMarker)

DisplayLine(layoutLine, contentWidth, emitCursorMarker) ==
    IF layoutLine.hasCursor /\ layoutLine.cursorPos # NoCursorPos
    THEN WithCursor(layoutLine.text,
                    JsSlice(layoutLine.text, 0, layoutLine.cursorPos),
                    JsSliceFrom(layoutLine.text, layoutLine.cursorPos),
                    visibleWidth(layoutLine.text), contentWidth, emitCursorMarker)
    ELSE Shown(layoutLine.text, visibleWidth(layoutLine.text), FALSE)

\* `${leftPadding}${displayText}${padding}${rightPadding}`
Padded(shown, contentWidth, paddingX) ==
    [text |-> Repeat(32, paddingX) \o shown.text
              \o Repeat(32, contentWidth - shown.width) \o Repeat(32, paddingX),
     marker |-> shown.marker]

\* ContentLine with the marker emitted whenever the editor is focused
ContentLineWhenFocused(e, layoutLine, contentWidth, paddingX) ==
    Padded(DisplayLine(layoutLine, contentWidth, e.focused), contentWidth, paddingX)

\* One content row of render
ContentLine(e, layoutLine, contentWidth, paddingX) ==
    Padded(DisplayLine(layoutLine, contentWidth, e.focused /\ ~e.isAutocompleting),
           contentWidth, paddingX)

OverlayRows(rows, contentWidth, paddingX) ==
    [i \in 1..Len(rows) |->
        Padded(Shown(rows[i], visibleWidth(rows[i]), FALSE), contentWidth, paddingX)]

\* The rows of the autocomplete list below the bottom border
OverlayLines(e, contentWidth, paddingX) ==
    IF e.isAutocompleting /\ e.autocompleteList # NoList
    THEN OverlayRows(SelectListRender(e.autocompleteList, contentWidth),
                     contentWidth, paddingX)
    ELSE <<>>

\* Math.max(5, Math.floor(terminalRows * 0.3))
MaxVisibleLines(e) == Max(5, (e.terminalRows * 3) \div 10)

\* Index (0-based) of the first layout line with the cursor, 0 when none
CursorLineIndex(layoutLines) ==
    FirstOr({i \in 0..(Len(layoutLines) - 1) : layoutLines[i + 1].hasCursor}, 0)

\* The scroll offset is moved to keep the cursor line visible
FollowCursor(scrollOffset, cursorLineIndex, maxVisibleLines) ==
    IF cursorLineIndex < scrollOffset THEN cursorLineIndex
    ELSE IF cursorLineIndex >= scrollOffset + maxVisibleLines
    THEN cursorLineIndex - maxVisibleLines + 1
    ELSE scrollOffset

\* The scroll offset only follows the cursor, with no clamp to the valid range
AdjustScrollUnclamped(scrollOffset, cursorLineIndex, lineCount, maxVisibleLines) ==
    FollowCursor(scrollOffset, cursorLineIndex, maxVisibleLines)

\* The scroll offset render settles on
AdjustScroll(scrollOffset, cursorLineIndex, lineCount, maxVisibleLines) ==
    Max(0, Min(FollowCursor(scrollOffset, cursorLineIndex, maxVisibleLines),
               Max(0, lineCount - maxVisibleLines)))

\* The lines render returns, once the visible slice is known
RenderFrame(e, width, contentWidth, paddingX, layoutLines, visibleLines) ==
    <<BorderLine(e, width, e.scrollOffset, 8593, "top")>>
    \o [i \in 1..Len(visibleLines) |->
           ContentLine(e, visibleLines[i], contentWidth, paddingX)]
    \o <<BorderLine(e, width, Len(layoutLines) - (e.scrollOffset + Len(visibleLines)),
                    8595, "bottom")>>
    \o OverlayLines(e, contentWidth, paddingX)

RenderVisible(e, width, contentWidth, paddingX, layoutLines) ==
    [editor |-> e,
     frame  |-> RenderFrame(e, width, contentWidth, paddingX, layoutLines,
                    JsSlice(layoutLines, e.scrollOffset,
                            e.scrollOffset + MaxVisibleLines(e)))]

RenderLayout(e, width, contentWidth, paddingX, layoutLines) ==
    RenderVisible([e EXCEPT !.lastWidth = contentWidth,
                            !.scrollOffset =
                                AdjustScroll(e.scrollOffset, CursorLineIndex(layoutLines),
                                             Len(layoutLines), MaxVisibleLines(e))],
                  width, contentWidth, paddingX, layoutLines)

RenderContent(e, width, contentWidth, paddingX) ==
    RenderLayout(e, width, contentWidth, paddingX, layoutText(e, contentWidth))

RenderPadded(e, width, paddingX) ==
    RenderContent(e, width, Max(1, width - paddingX * 2), paddingX)

\* setPaddingX(padding) for a finite integer: Math.max(0, Math.floor(padding))
setPaddingX(e, padding) == [e EXCEPT !.paddingX = Max(0, padding)]

\* setBorderStyle(style)
setBorderStyle(e, style) == [e EXCEPT !.borderStyle = style]

\* render(width) with the configured padding taken as it is
renderUnclampedPadding(e, width) == RenderPadded(e, width, e.paddingX)

\* render(width): the editor after the call (lastWidth and scrollOffset are
\* written) and the lines returned
render(e, width) == RenderPadded(e, width, Min(e.paddingX, Max(0, (width - 1) \div 2)))

\* ------------------------------------------------------------------------
\* The state machine.  The variables are the fields of one Editor instance,
\* what the host's two sinks received during the last public operation, the
\* lines the last render returned, and a record of the operations performed.
\* ------------------------------------------------------------------------

VARIABLES
    lines, cursorLine, cursorCol,       \* this.state
    focused, paddingX, borderStyle,
    lastWidth, scrollOffset,
    hasProvider,
    providerMethods,    \* the optional methods the provider has
    autocompleteList, isAutocompleting, autocompletePrefix,
    pastes, pasteCounter,
    pasteBuffer, isInPaste, pendingShiftEnter,
    history, historyIndex,
    disableSubmit,
    changeCalls,    \* arguments onChange received during the last operation
    submitCalls,    \* arguments onSubmit received during the last operation
    sinkCalls,      \* the calls of both sinks during the last operation, in order
    thrown,         \* whether the last operation ended by throwing to the host
    frame,          \* the lines the last operation returned, if it was render
    lastOp,         \* the last public operation and its argument
    log             \* the operations of a scenario, in order

vars ==
    <<lines, cursorLine, cursorCol, focused, paddingX, borderStyle, lastWidth,
      scrollOffset, hasProvider, autocompleteList, isAutocompleting,
      autocompletePrefix, pastes, pasteCounter, pasteBuffer, isInPaste,
      pendingShiftEnter, history, historyIndex, disableSubmit, changeCalls,
      submitCalls, sinkCalls, thrown, frame, lastOp, log, submitKeys,
      providerMethods>>

\* The editor object the variables hold
Ed ==
    [lines |-> lines, cursorLine |-> cursorLine, cursorCol |-> cursorCol,
     focused |-> focused, paddingX |-> paddingX, borderStyle |-> borderStyle,
     lastWidth |-> lastWidth, scrollOffset |-> scrollOffset,
     hasProvider |-> hasProvider, providerMethods |-> providerMethods,
     autocompleteList |-> autocompleteList,
     isAutocompleting |-> isAutocompleting, autocompletePrefix |-> autocompletePrefix,
     pastes |-> pastes, pasteCounter |-> pasteCounter,
     pasteBuffer |-> pasteBuffer, isInPaste |-> isInPaste,
     pendingShiftEnter |-> pendingShiftEnter,
     history |-> history, historyIndex |-> historyIndex,
     disableSubmit |-> disableSubmit, terminalRows |-> TerminalRows,
     changeCalls |-> changeCalls, submitCalls |-> submitCalls,
     sinkCalls |-> sinkCalls,
     providerFails |-> FALSE, thrown |-> thrown]

\* The editor at the start of a public operation: the sinks have received
\* nothing yet and no error is in flight
Begin(e) ==
    [e EXCEPT !.changeCalls = <<>>, !.submitCalls = <<>>, !.sinkCalls = <<>>,
              !.thrown = FALSE]

\* The variables take the fields of e
Commit(e) ==
    /\ lines' = e.lines
    /\ cursorLine' = e.cursorLine
    /\ cursorCol' = e.cursorCol
    /\ focused' = e.focused
    /\ paddingX' = e.paddingX
    /\ borderStyle' = e.borderStyle
    /\ lastWidth' = e.lastWidth
    /\ scrollOffset' = e.scrollOffset
    /\ hasProvider' = e.hasProvider
    /\ providerMethods' = e.providerMethods
    /\ autocompleteList' = e.autocompleteList
    /\ isAutocompleting' = e.isAutocompleting
    /\ autocompletePrefix' = e.autocompletePrefix
    /\ pastes' = e.pastes
    /\ pasteCounter' = e.pasteCounter
    /\ pasteBuffer' = e.pasteBuffer
    /\ isInPaste' = e.isInPaste
    /\ pendingShiftEnter' = e.pendingShiftEnter
    /\ history' = e.history
    /\ historyIndex' = e.historyIndex
    /\ disableSubmit' = e.disableSubmit
    /\ changeCalls' = e.changeCalls
    /\ submitCalls' = e.submitCalls
    /\ sinkCalls' = e.sinkCalls
    /\ thrown' = e.thrown
    /\ submitKeys' = submitKeys

\* A public operation as lastOp records it: its name, its argument, and
\* whether the buffer was empty when it began
Op(name, arg) == [op |-> name, arg |-> arg, empty |-> isEditorEmpty(Ed)]

\* new Editor(tui, theme, options): the state after construction
Constructed(padding, style) ==
    /\ lines = FreshEditor.lines
    /\ cursorLine = FreshEditor.cursorLine
    /\ cursorCol = FreshEditor.cursorCol
    /\ focused = FreshEditor.focused
    /\ paddingX = Max(0, padding)
    /\ borderStyle = style
    /\ lastWidth = FreshEditor.lastWidth
    /\ scrollOffset = FreshEditor.scrollOffset
    /\ hasProvider = FreshEditor.hasProvider
    /\ providerMethods = FreshEditor.providerMethods
    /\ autocompleteList = FreshEditor.autocompleteList
    /\ isAutocompleting = FreshEditor.isAutocompleting
    /\ autocompletePrefix = FreshEditor.autocompletePrefix
    /\ pastes = FreshEditor.pastes
    /\ pasteCounter = FreshEditor.pasteCounter
    /\ pasteBuffer = FreshEditor.pasteBuffer
    /\ isInPaste = FreshEditor.isInPaste
    /\ pendingShiftEnter = FreshEditor.pendingShiftEnter
    /\ history = FreshEditor.history
    /\ historyIndex = FreshEditor.historyIndex
    /\ disableSubmit = FreshEditor.disableSubmit
    /\ changeCalls = <<>>
    /\ submitCalls = <<>>
    /\ sinkCalls = <<>>
    /\ thrown = FALSE
    /\ frame = <<>>
    /\ lastOp = [op |-> "new", arg |-> <<>>, empty |-> TRUE]
    /\ log = <<>>
    /\ submitKeys = {KeyEnter}

\* editor.handleInput(data)
OpHandleInput(data) ==
    /\ Commit(handleInput(Begin(Ed), data))
    /\ frame' = <<>>
    /\ lastOp' = Op("handleInput", data)

\* editor.render(width)
CommitRender(rendered) == Commit(rendered.editor) /\ frame' = rendered.frame

OpRender(width) ==
    /\ CommitRender(render(Begin(Ed), width))
    /\ lastOp' = Op("render", <<width>>)

\* editor.setText(text)
OpSetText(text) ==
    /\ Commit(setText(Begin(Ed), text))
    /\ frame' = <<>>
    /\ lastOp' = Op("setText", text)

\* editor.insertTextAtCursor(text)
OpInsertTextAtCursor(text) ==
    /\ Commit(insertTextAtCursor(Begin(Ed), text))
    /\ frame' = <<>>
    /\ lastOp' = Op("insertTextAtCursor", text)

\* editor.addToHistory(text)
OpAddToHistory(text) ==
    /\ Commit(addToHistory(Begin(Ed), text))
    /\ frame' = <<>>
    /\ lastOp' = Op("addToHistory", text)

\* editor.setAutocompleteProvider(provider) for a provider with the given
\* optional methods
OpSetAutocompleteProviderWith(methods) ==
    /\ Commit([Begin(Ed) EXCEPT !.hasProvider = TRUE, !.providerMethods = methods])
    /\ frame' = <<>>
    /\ lastOp' = Op("setAutocompleteProvider", <<>>)

\* editor.setAutocompleteProvider(provider) for a provider with both
\* optional methods
OpSetAutocompleteProvider == OpSetAutocompleteProviderWith(ProviderOptionalMethods)

\* setEditorKeybindings(new EditorKeybindingsManager({ submit: keys })): the
\* editor is not touched
OpSetEditorKeybindings(keys) ==
    /\ submitKeys' = keys
    /\ lastOp' = Op("setEditorKeybindings", <<>>)
    /\ UNCHANGED <<lines, cursorLine, cursorCol, focused, paddingX, borderStyle,
                   lastWidth, scrollOffset, hasProvider, providerMethods,
                   autocompleteList,
                   isAutocompleting, autocompletePrefix, pastes, pasteCounter,
                   pasteBuffer, isInPaste, pendingShiftEnter, history,
                   historyIndex, disableSubmit, changeCalls, submitCalls,
                   sinkCalls, thrown, frame>>

\* editor.setBorderStyle(style)
OpSetBorderStyle(style) ==
    /\ Commit(setBorderStyle(Begin(Ed), style))
    /\ frame' = <<>>
    /\ lastOp' = Op("setBorderStyle", <<>>)

\* editor.disableSubmit = value
OpSetDisableSubmit(value) ==
    /\ Commit([Begin(Ed) EXCEPT !.disableSubmit = value])
    /\ frame' = <<>>
    /\ lastOp' = Op("disableSubmit", <<>>)

\* editor.focused = value
OpSetFocused(value) ==
    /\ Commit([Begin(Ed) EXCEPT !.focused = value])
    /\ frame' = <<>>
    /\ lastOp' = Op("focused", <<>>)

\* ------------------------------------------------------------------------
\* Specification Spec: editing and cursor motion.  Any sequence of
\* handleInput, render, setText and insertTextAtCursor, the buffer text
\* bounded by MaxText code units.
\* ------------------------------------------------------------------------

MaxText == 3
MaxWidth == 2

\* U+1F600 as a surrogate pair: one grapheme of two code units, two cells
Emoji == <<55357, 56832>>

EditInputs ==
    { <<97>>, <<32>>, Emoji, <<97, 10>>,
      KeyEnter, KeyBackspace, KeyDelete, KeyLeft, KeyRight, KeyUp, KeyDown,
      KeyShiftEnter, KeyPageUp, KeyPageDown, KeyCtrlW, KeyHome, KeyEnd }

EditTexts == { <<>>, <<97, 13, 10, 32>> }

InsertTexts == { <<97, 32>>, <<10>> }

\* The cursor column can run below zero without limit; MaxUnderflow caps it
MaxUnderflow == 2

CursorBounded == cursorCol >= -MaxUnderflow

Bounded == Len(JoinLines(lines)) <= MaxText /\ CursorBounded

Init == Constructed(0, "rounded")

HandleInput ==
    \E data \in EditInputs : OpHandleInput(data) /\ Bounded' /\ UNCHANGED log

Render ==
    \E width \in 1..MaxWidth : OpRender(width) /\ UNCHANGED log

SetText ==
    \E text \in EditTexts : OpSetText(text) /\ Bounded' /\ UNCHANGED log

InsertTextAtCursor ==
    \E text \in InsertTexts : OpInsertTextAtCursor(text) /\ Bounded' /\ UNCHANGED log

Next == HandleInput \/ Render \/ SetText \/ InsertTextAtCursor

Spec == Init /\ [][Next]_vars

\* ------------------------------------------------------------------------
\* Specification SpecOverlay: the autocomplete overlay and the submit key.
\* ------------------------------------------------------------------------

MaxOverlayText == 4

OverlayInputs ==
    { <<47>>, <<97>>, KeyEnter, KeyTab, KeyEscape, KeyUp, KeyDown, KeyBackspace }

OverlayBounded == Len(JoinLines(lines)) <= MaxOverlayText /\ CursorBounded

OverlayHandleInput ==
    \E data \in OverlayInputs : OpHandleInput(data) /\ OverlayBounded' /\ UNCHANGED log

SetAutocompleteProvider ==
    ~hasProvider /\ OpSetAutocompleteProvider /\ UNCHANGED log

SetDisableSubmit ==
    \E value \in BOOLEAN :
        value # disableSubmit /\ OpSetDisableSubmit(value) /\ UNCHANGED log

OverlayRender == OpRender(MaxOverlayText) /\ UNCHANGED log

NextOverlay ==
    OverlayHandleInput \/ SetAutocompleteProvider \/ SetDisableSubmit \/ OverlayRender

SpecOverlay == Init /\ [][NextOverlay]_vars

\* ------------------------------------------------------------------------
\* Specification SpecRender: render at every width up to MaxRenderWidth,
\* for every border style and horizontal padding up to MaxPadding.
\* ------------------------------------------------------------------------

MaxRenderWidth == 4
MaxPadding == 1

\* "", "a", the emoji, "aa a", and six empty lines
RenderTexts ==
    { <<>>, <<97>>, Emoji, <<97, 97, 32, 97>>, <<10, 10, 10, 10, 10>> }

InitRender ==
    \E padding \in 0..MaxPadding :
        \E style \in {"rounded", "sharp", "none"} : Constructed(padding, style)

RenderSetText ==
    \E text \in RenderTexts : OpSetText(text) /\ UNCHANGED log

RenderWidth ==
    \E width \in 1..MaxRenderWidth : OpRender(width) /\ UNCHANGED log

RenderKey ==
    \E data \in {KeyUp, KeyLeft} :
        OpHandleInput(data) /\ CursorBounded' /\ UNCHANGED log

SetFocused ==
    \E value \in BOOLEAN : value # focused /\ OpSetFocused(value) /\ UNCHANGED log

NextRender == RenderSetText \/ RenderWidth \/ RenderKey \/ SetFocused

SpecRender == InitRender /\ [][NextRender]_vars

\* ------------------------------------------------------------------------
\* Specification SpecSubmit: bracketed pastes, small and large, the submit
\* key, history browsing and scrolling before a submit.
\* ------------------------------------------------------------------------

MaxSubmitText == 20
MaxPastes == 1
MaxSubmitWidth == 4

\* Twelve lines, the first one blank: "\na\na\na\na\na\na\na\na\na\na\na"
SubmitLarge ==
    <<10, 97, 10, 97, 10, 97, 10, 97, 10, 97, 10, 97,
      10, 97, 10, 97, 10, 97, 10, 97, 10, 97>>

\* Seven lines, inserted as they are: " a\tb" and six line ends
SubmitSmall == <<32, 97, 9, 98, 13, 10, 10, 10, 10, 10, 10>>

SubmitPayloads == {SubmitLarge, SubmitSmall}

Bracketed(payload) == PasteStart \o payload \o PasteEnd

SubmitInputs ==
    {Bracketed(payload) : payload \in SubmitPayloads} \cup {KeyEnter, KeyUp}

SubmitBounded ==
    /\ Len(JoinLines(lines)) <= MaxSubmitText
    /\ pasteCounter <= MaxPastes
    /\ CursorBounded

SubmitHandleInput ==
    \E data \in SubmitInputs : OpHandleInput(data) /\ SubmitBounded' /\ UNCHANGED log

SubmitAddToHistory ==
    history = <<>> /\ OpAddToHistory(<<97>>) /\ UNCHANGED log

SubmitRender ==
    OpRender(MaxSubmitWidth) /\ UNCHANGED log

SubmitSetDisableSubmit ==
    \E value \in BOOLEAN :
        value # disableSubmit /\ OpSetDisableSubmit(value) /\ UNCHANGED log

NextSubmit ==
    SubmitHandleInput \/ SubmitAddToHistory \/ SubmitRender \/ SubmitSetDisableSubmit

SpecSubmit == Init /\ [][NextSubmit]_vars

\* ------------------------------------------------------------------------
\* Specification SpecHistory: any sequence of addToHistory calls.
\* ------------------------------------------------------------------------

\* "a", " b ", "b\n", "" and " \t"
HistoryTexts == { <<97>>, <<32, 98, 32>>, <<98, 10>>, <<>>, <<32, 9>> }

AddToHistory ==
    \E text \in HistoryTexts : OpAddToHistory(text) /\ UNCHANGED log

NextHistory == AddToHistory

SpecHistory == Init /\ [][NextHistory]_vars

\* ------------------------------------------------------------------------
\* Specification SpecRecall: the history recall scenario.  After an optional
\* render, two texts are either added to the history or set and submitted
\* with the submit key; cursorUp and cursorDown follow.  log records the
\* operations in order.
\* ------------------------------------------------------------------------

MaxRecallKeys == 4
MaxRecallWidth == 2

\* "a", " b", "a\rb" and "aaa"
RecallTexts == { <<97>>, <<32, 98>>, <<97, 13, 98>>, <<97, 97, 97>> }

LogEntry(name, arg) == [op |-> name, arg |-> arg]

\* The log without the render it may start with
Script ==
    IF log # <<>> /\ log[1].op = "render" THEN Tail(log) ELSE log

\* Number of entries of the script that set up the scenario
Added == Len(SelectSeq(Script, LAMBDA entry : entry.op = "addToHistory"))
Submitted ==
    Len(SelectSeq(Script, LAMBDA entry : entry.op = "handleInput" /\ entry.arg = KeyEnter))
Typed == Len(SelectSeq(Script, LAMBDA entry : entry.op = "setText"))
Pressed ==
    Len(SelectSeq(Script, LAMBDA entry : entry.op = "handleInput" /\ entry.arg # KeyEnter))

RecallRender ==
    /\ log = <<>>
    /\ \E width \in 1..MaxRecallWidth :
           OpRender(width) /\ log' = Append(log, LogEntry("render", <<width>>))

RecallAddToHistory ==
    /\ Added < 2 /\ Typed = 0 /\ Pressed = 0
    /\ \E text \in RecallTexts :
           OpAddToHistory(text) /\ log' = Append(log, LogEntry("addToHistory", text))

RecallSetText ==
    /\ Added = 0 /\ Typed < 2 /\ Submitted = Typed /\ Pressed = 0
    /\ \E text \in RecallTexts :
           OpSetText(text) /\ log' = Append(log, LogEntry("setText", text))

RecallSubmit ==
    /\ Submitted < Typed
    /\ OpHandleInput(KeyEnter)
    /\ log' = Append(log, LogEntry("handleInput", KeyEnter))

RecallKey ==
    /\ Added = 2 \/ Submitted = 2
    /\ Pressed < MaxRecallKeys
    /\ \E data \in {KeyUp, KeyDown} :
           OpHandleInput(data) /\ log' = Append(log, LogEntry("handleInput", data))

NextRecall ==
    RecallRender \/ RecallAddToHistory \/ RecallSetText \/ RecallSubmit \/ RecallKey

SpecRecall == Init /\ [][NextRecall]_vars

\* ------------------------------------------------------------------------
\* Specification SpecBrowse: history browsing next to editing.  Entries are
\* added to the history, keys are pressed and the editor is rendered at
\* narrow widths.
\* ------------------------------------------------------------------------

MaxBrowseText == 3
MaxBrowseWidth == 1
MaxBrowseHistory == 1

\* "a" and "a a"
BrowseTexts == { <<97>>, <<97, 32, 97>> }

\* "a", "\", and the keys
BrowseInputs == { <<97>>, <<92>>, KeyEnter, KeyUp, KeyDown, KeyBackspace }

BrowseBounded == Len(JoinLines(lines)) <= MaxBrowseText /\ CursorBounded

BrowseHandleInput ==
    \E data \in BrowseInputs : OpHandleInput(data) /\ BrowseBounded' /\ UNCHANGED log

BrowseAddToHistory ==
    /\ Len(history) < MaxBrowseHistory
    /\ historyIndex = -1
    /\ \E text \in BrowseTexts : OpAddToHistory(text) /\ UNCHANGED log

BrowseRender ==
    \E width \in 1..MaxBrowseWidth : OpRender(width) /\ UNCHANGED log

NextBrowse == BrowseHandleInput \/ BrowseAddToHistory \/ BrowseRender

SpecBrowse == Init /\ [][NextBrowse]_vars

\* ------------------------------------------------------------------------
\* Specification SpecApply: the autocomplete overlay next to editing keys,
\* the held backslash, a browsed history entry and disableSubmit.
\* ------------------------------------------------------------------------

MaxApplyText == 3

\* "/", "a", "\", and the keys
ApplyInputs ==
    { <<47>>, <<97>>, <<92>>, KeyEnter, KeyTab, KeyUp, KeyDown, KeyBackspace,
      KeyCtrlU }

ApplyBounded == Len(JoinLines(lines)) <= MaxApplyText

ApplyHandleInput ==
    \E data \in ApplyInputs : OpHandleInput(data) /\ ApplyBounded' /\ UNCHANGED log

\* The entry "@a"
ApplyAddToHistory ==
    history = <<>> /\ OpAddToHistory(<<64, 97>>) /\ UNCHANGED log

ApplySetAutocompleteProvider ==
    ~hasProvider /\ OpSetAutocompleteProvider /\ UNCHANGED log

ApplySetDisableSubmit ==
    ~disableSubmit /\ OpSetDisableSubmit(TRUE) /\ UNCHANGED log

NextApply ==
    \/ ApplyHandleInput
    \/ ApplyAddToHistory
    \/ ApplySetAutocompleteProvider
    \/ ApplySetDisableSubmit

SpecApply == Init /\ [][NextApply]_vars

\* ------------------------------------------------------------------------
\* Specification SpecPaste: bracketed pastes in one or several chunks, next
\* to typing, the held backslash, setText and cursorUp at content width 1.
\* ------------------------------------------------------------------------

MaxPasteText == 3
MaxPasteIds == 1
MaxPasteBuffer == 6

\* Eleven empty lines: ten line feeds
PasteLarge == <<10, 10, 10, 10, 10, 10, 10, 10, 10, 10>>

\* Two lines, "b" and "b"
PasteSmall == <<98, 10, 98>>

\* One line, "b"
PasteLine == <<98>>

PastePayloads == {PasteLarge, PasteSmall, PasteLine}

\* A carriage return and a whole bracketed paste in one chunk
PastePrefixed == <<13>> \o Bracketed(PasteLine)

\* A paste of eleven empty lines in two chunks, the second one followed by "a"
PasteOpening == PasteStart \o <<10, 10, 10, 10, 10>>
PasteClosing == <<10, 10, 10, 10, 10>> \o PasteEnd \o <<97>>

PasteChunks ==
    {Bracketed(payload) : payload \in PastePayloads}
    \cup {PastePrefixed, PasteOpening, PasteClosing}

\* "a", "\", and the keys
PasteKeys == { <<97>>, <<92>>, KeyEnter, KeyUp }

\* "a a" and "[paste #1 +11 lines]"
PasteTexts == { <<97, 32, 97>>, PasteMarker(1, 11, 10) }

\* The number of markers in the buffer text, counted by their "["
MarkerCount == Len(SelectSeq(JoinLines(lines), LAMBDA c : c = 91))

\* The length of the buffer text, a marker counted for nothing
TypedLength == Len(JoinLines(lines)) - Len(PasteMarker(1, 11, 10)) * MarkerCount

PasteBounded ==
    /\ TypedLength <= MaxPasteText
    /\ MarkerCount <= MaxPasteIds
    /\ pasteCounter <= MaxPasteIds
    /\ Len(pasteBuffer) <= MaxPasteBuffer
    /\ CursorBounded

\* The buffer holds no marker: cursorUp and render are taken on such buffers
NoMarker == MarkerCount = 0

PasteHandleInput ==
    \E data \in PasteChunks \cup PasteKeys :
        /\ data = KeyUp => NoMarker
        /\ OpHandleInput(data) /\ PasteBounded' /\ UNCHANGED log

PasteSetText ==
    \E text \in PasteTexts : OpSetText(text) /\ PasteBounded' /\ UNCHANGED log

PasteRender ==
    NoMarker /\ OpRender(1) /\ UNCHANGED log

NextPaste == PasteHandleInput \/ PasteSetText \/ PasteRender

SpecPaste == Init /\ [][NextPaste]_vars

\* ------------------------------------------------------------------------
\* Specification SpecBackslash: the held backslash next to typing, the
\* submit key, cursorLeft and a bracketed paste in one or two chunks.
\* ------------------------------------------------------------------------

MaxBackslashText == 3
MaxBackslashBuffer == 2

\* "a", "\", and the keys
BackslashKeys == { <<97>>, <<92>>, KeyEnter, KeyLeft }

\* The paste "bb" in two chunks, the second one followed by "a"
BackslashOpening == PasteStart \o <<98>>
BackslashClosing == <<98>> \o PasteEnd \o <<97>>

BackslashChunks == {Bracketed(PasteLine), BackslashOpening, BackslashClosing}

BackslashBounded ==
    /\ Len(JoinLines(lines)) <= MaxBackslashText
    /\ Len(pasteBuffer) <= MaxBackslashBuffer

BackslashHandleInput ==
    \E data \in BackslashKeys \cup BackslashChunks :
        OpHandleInput(data) /\ BackslashBounded' /\ UNCHANGED log

NextBackslash == BackslashHandleInput

SpecBackslash == Init /\ [][NextBackslash]_vars

\* ------------------------------------------------------------------------
\* Specification SpecKitty: CSI-u sequences of the Kitty keyboard protocol
\* for keys that no binding takes, next to cursorLeft and the submit key.
\* ------------------------------------------------------------------------

MaxKittyText == 2

\* The absent field of a CSI-u sequence
Absent == -1

\* The unit separator, "q" and "e" with an acute accent
KittyCodepoints == {31, 113, 233}

\* No shifted codepoint, a line feed, and "Q"
KittyShiftedCodepoints == {Absent, 10, 81}

\* No modifier field, and the fields 0, 1 (none), 2 (shift), 3 (alt),
\* 5 (ctrl), 6 (ctrl+shift), 9 (super) and 10 (super+shift)
KittyModifierFields == {Absent, 0, 1, 2, 3, 5, 6, 9, 10}

\* ESC [ cp [: sh] [; m] u
CsiU(cp, sh, m) ==
    <<27, 91>> \o Decimal(cp)
    \o (IF sh = Absent THEN <<>> ELSE <<58>> \o Decimal(sh))
    \o (IF m = Absent THEN <<>> ELSE <<59>> \o Decimal(m))
    \o <<117>>

KittyInputs ==
    {CsiU(cp, sh, m) : cp \in KittyCodepoints, sh \in KittyShiftedCodepoints,
                       m \in KittyModifierFields}
    \cup {KeyLeft, KeyEnter}

KittyBounded == Len(JoinLines(lines)) <= MaxKittyText

KittyHandleInput ==
    \E data \in KittyInputs : OpHandleInput(data) /\ KittyBounded' /\ UNCHANGED log

NextKitty == KittyHandleInput

SpecKitty == Init /\ [][NextKitty]_vars

\* ------------------------------------------------------------------------
\* Specification SpecFocus: render of a focused or unfocused editor, with
\* the autocomplete overlay shown or not, at widths that wrap the buffer.
\* ------------------------------------------------------------------------

MaxFocusText == 3
MaxFocusWidth == 2

\* "/", "a", " ", and the keys
FocusInputs == { <<47>>, <<97>>, <<32>>, KeyLeft, KeyUp, KeyEscape, KeyBackspace }

FocusBounded == Len(JoinLines(lines)) <= MaxFocusText /\ CursorBounded

FocusHandleInput ==
    \E data \in FocusInputs : OpHandleInput(data) /\ FocusBounded' /\ UNCHANGED log

FocusSetAutocompleteProvider ==
    ~hasProvider /\ OpSetAutocompleteProvider /\ UNCHANGED log

FocusSetFocused ==
    \E value \in BOOLEAN : value # focused /\ OpSetFocused(value) /\ UNCHANGED log

FocusRender ==
    \E width \in 1..MaxFocusWidth : OpRender(width) /\ UNCHANGED log

NextFocus ==
    \/ FocusHandleInput
    \/ FocusSetAutocompleteProvider
    \/ FocusSetFocused
    \/ FocusRender

SpecFocus == Init /\ [][NextFocus]_vars

\* ------------------------------------------------------------------------
\* Specification SpecRaise: input events during which the provider's
\* getSuggestions and applyCompletion raise an error, between events during
\* which they do not, for providers with and without the optional methods.
\* ------------------------------------------------------------------------

MaxRaiseText == 3

\* "/", "a", "\", and the keys
RaiseInputs == { <<47>>, <<97>>, <<92>>, KeyEnter, KeyTab, KeyBackspace, KeyEscape }

RaiseBounded == Len(JoinLines(lines)) <= MaxRaiseText

\* editor.handleInput(data) with a provider that works
RaiseHandleInput ==
    \E data \in RaiseInputs : OpHandleInput(data) /\ RaiseBounded' /\ UNCHANGED log

\* editor.handleInput(data) with a provider whose calls raise
OpHandleInputFailing(data) ==
    /\ Commit(handleInput([Begin(Ed) EXCEPT !.providerFails = TRUE], data))
    /\ frame' = <<>>
    /\ lastOp' = Op("handleInput", data)

RaiseHandleInputFailing ==
    \E data \in RaiseInputs :
        OpHandleInputFailing(data) /\ RaiseBounded' /\ UNCHANGED log

RaiseSetAutocompleteProvider ==
    ~hasProvider /\ OpSetAutocompleteProvider /\ UNCHANGED log

\* A provider that lacks one or both of the optional methods
RaiseSetPlainProvider ==
    \E methods \in (SUBSET ProviderOptionalMethods) \ {ProviderOptionalMethods} :
        ~hasProvider /\ OpSetAutocompleteProviderWith(methods) /\ UNCHANGED log

NextRaise ==
    \/ RaiseHandleInput
    \/ RaiseHandleInputFailing
    \/ RaiseSetAutocompleteProvider
    \/ RaiseSetPlainProvider

SpecRaise == Init /\ [][NextRaise]_vars

\* ------------------------------------------------------------------------
\* Specification SpecIgnore: malformed input chunks between ordinary input,
\* with the overlay, a browsed history entry and a held backslash.
\* ------------------------------------------------------------------------

MaxIgnoreText == 3

\* An unknown escape sequence "\x1b[99~", an incomplete CSI-u sequence
\* "\x1b[97", a lone "\n", "\n" before a letter, and the control bytes 2
\* and 7 alone and before a letter
MalformedChunks ==
    { <<27, 91, 57, 57, 126>>, <<27, 91, 57, 55>>, <<10>>, <<10, 97>>,
      <<2>>, <<7, 97>> }

\* "/", "a", "\", and the keys; the stray ESC and the lone "\r" are the
\* keys escape and enter
IgnoreInputs ==
    { <<47>>, <<97>>, <<92>>, KeyEnter, KeyEscape, KeyUp, KeyLeft } \cup MalformedChunks

IgnoreBounded == Len(JoinLines(lines)) <= MaxIgnoreText /\ CursorBounded

IgnoreHandleInput ==
    \E data \in IgnoreInputs : OpHandleInput(data) /\ IgnoreBounded' /\ UNCHANGED log

\* The entry "a"
IgnoreAddToHistory ==
    history = <<>> /\ OpAddToHistory(<<97>>) /\ UNCHANGED log

IgnoreSetAutocompleteProvider ==
    ~hasProvider /\ OpSetAutocompleteProvider /\ UNCHANGED log

NextIgnore ==
    \/ IgnoreHandleInput
    \/ IgnoreAddToHistory
    \/ IgnoreSetAutocompleteProvider

SpecIgnore == Init /\ [][NextIgnore]_vars

\* ------------------------------------------------------------------------
\* Specification SpecSetText: setText of every string of up to
\* MaxSetTextLength units over "a", "\r" and "\n", between typing, cursor
\* motion and history browsing.
\* ------------------------------------------------------------------------

MaxSetTextLength == 3

SetTextUnits == {97, 13, 10}

SetTextStrings == UNION {[1..n -> SetTextUnits] : n \in 0..MaxSetTextLength}

SetTextInputs == { <<97>>, KeyUp, KeyLeft, KeyBackspace }

SetTextBounded == Len(JoinLines(lines)) <= MaxSetTextLength /\ CursorBounded

SetTextAny ==
    \E text \in SetTextStrings : OpSetText(text) /\ UNCHANGED log

SetTextHandleInput ==
    \E data \in SetTextInputs : OpHandleInput(data) /\ SetTextBounded' /\ UNCHANGED log

\* The entry "a"
SetTextAddToHistory ==
    history = <<>> /\ OpAddToHistory(<<97>>) /\ UNCHANGED log

NextSetText == SetTextAny \/ SetTextHandleInput \/ SetTextAddToHistory

SpecSetText == Init /\ [][NextSetText]_vars

\* ------------------------------------------------------------------------
\* Specification SpecScroll: render of buffers taller than the window, at
\* several terminal heights, between cursor motion, page scrolling and
\* deletions that shrink the buffer.
\* ------------------------------------------------------------------------

MaxScrollLines == 8
MaxScrollWidth == 2

\* Terminal heights: max(5, floor(0.3 * rows)) is 5, 6 and 7
ScrollRows == {10, 20, 24}

\* Line feeds only, up to MaxScrollLines + 1 empty lines, and "aaaaaaa",
\* seven rows at content width 1
ScrollTexts ==
    {[i \in 1..n |-> 10] : n \in {0, MaxScrollLines - 2, MaxScrollLines}}
    \cup { <<97, 97, 97, 97, 97, 97, 97>> }

ScrollInputs ==
    { KeyUp, KeyDown, KeyPageUp, KeyPageDown, KeyBackspace }

ScrollBounded == Len(JoinLines(lines)) <= MaxScrollLines /\ CursorBounded

\* editor.render(width) on a terminal of the given height
OpRenderRows(width, rows) ==
    /\ CommitRender(render([Begin(Ed) EXCEPT !.terminalRows = rows], width))
    /\ lastOp' = Op("render", <<width, rows>>)

ScrollRender ==
    \E width \in 1..MaxScrollWidth :
        \E rows \in ScrollRows : OpRenderRows(width, rows) /\ UNCHANGED log

ScrollSetText ==
    \E text \in ScrollTexts : OpSetText(text) /\ UNCHANGED log

ScrollHandleInput ==
    \E data \in ScrollInputs : OpHandleInput(data) /\ ScrollBounded' /\ UNCHANGED log

NextScroll == ScrollRender \/ ScrollSetText \/ ScrollHandleInput

SpecScroll == Init /\ [][NextScroll]_vars

\* ------------------------------------------------------------------------
\* Specification SpecWrap: every line of up to MaxWrapLength units over "a"
\* and " " is set, rendered at every width up to MaxWrapWidth, and the
\* cursor moved over it.
\* ------------------------------------------------------------------------

MaxWrapLength == 4
MaxWrapWidth == 2

WrapUnits == {97, 32}

WrapLines == UNION {[1..n -> WrapUnits] : n \in 1..MaxWrapLength}

WrapInputs == { KeyLeft, KeyUp, KeyDown }

WrapSetText ==
    \E text \in WrapLines : OpSetText(text) /\ UNCHANGED log

WrapRender ==
    \E width \in 1..MaxWrapWidth : OpRender(width) /\ UNCHANGED log

WrapHandleInput ==
    \E data \in WrapInputs : OpHandleInput(data) /\ CursorBounded' /\ UNCHANGED log

NextWrap == WrapSetText \/ WrapRender \/ WrapHandleInput

SpecWrap == Init /\ [][NextWrap]_vars

\* ------------------------------------------------------------------------
\* Specification SpecVertical: cursorUp and cursorDown over wrapped lines.
\* The history is empty, so the arrows never browse it.  log holds the
\* cursorUp just pressed with the cursor it started from, and is emptied by
\* every operation other than the cursorDown that follows it.
\* ------------------------------------------------------------------------

MaxVerticalLength == 4
MaxVerticalWidth == 2

\* Lines over "a" and " ", and "aa" above "a"
VerticalTexts ==
    UNION {[1..n -> {97, 32}] : n \in 1..MaxVerticalLength} \cup { <<97, 97, 10, 97>> }

VerticalSetText ==
    \E text \in VerticalTexts : OpSetText(text) /\ log' = <<>>

VerticalRender ==
    \E width \in 1..MaxVerticalWidth : OpRender(width) /\ log' = <<>>

VerticalLeft ==
    OpHandleInput(KeyLeft) /\ CursorBounded' /\ log' = <<>>

VerticalUp ==
    /\ OpHandleInput(KeyUp)
    /\ CursorBounded'
    /\ log' = <<LogEntry("cursorUp", <<cursorLine, cursorCol>>)>>

VerticalDown ==
    /\ OpHandleInput(KeyDown)
    /\ CursorBounded'
    /\ log' = IF lastOp.op = "handleInput" /\ lastOp.arg = KeyUp THEN log ELSE <<>>

NextVertical ==
    \/ VerticalSetText
    \/ VerticalRender
    \/ VerticalLeft
    \/ VerticalUp
    \/ VerticalDown

SpecVertical == Init /\ [][NextVertical]_vars

\* ------------------------------------------------------------------------
\* Specification SpecWindow: render of one wrapped line taller than the
\* window, between cursor motion over its words and the spaces between them.
\* ------------------------------------------------------------------------

MaxWindowWords == 7
MaxWindowWidth == 2

\* Terminal heights: max(5, floor(0.3 * rows)) is 5 and 7
WindowRows == {10, 24}

\* "a a ... a" of n words: 2n - 1 units, n rows at content width 1
SpacedWords(n) == [i \in 1..(2 * n - 1) |-> IF i % 2 = 1 THEN 97 ELSE 32]

\* The spaced line, and as many "a" without spaces
WindowTexts ==
    { SpacedWords(MaxWindowWords), [i \in 1..MaxWindowWords |-> 97] }

WindowInputs == { KeyUp, KeyDown, KeyLeft, KeyRight }

WindowRender ==
    \E width \in 1..MaxWindowWidth :
        \E rows \in WindowRows : OpRenderRows(width, rows) /\ UNCHANGED log

WindowSetText ==
    \E text \in WindowTexts : OpSetText(text) /\ UNCHANGED log

WindowHandleInput ==
    \E data \in WindowInputs : OpHandleInput(data) /\ CursorBounded' /\ UNCHANGED log

NextWindow == WindowRender \/ WindowSetText \/ WindowHandleInput

SpecWindow == Init /\ [][NextWindow]_vars

\* ------------------------------------------------------------------------
\* Specification SpecCapture: the keys the overlay captures, pressed with
\* the overlay active or not, next to the held backslash, an open bracketed
\* paste, a stored large paste and a history entry.
\* ------------------------------------------------------------------------

MaxCaptureText == 2
MaxCaptureBuffer == 1

\* "/", "@", "a", "\", the keys, the two paste markers and a whole large paste
CaptureInputs ==
    { <<47>>, <<64>>, <<97>>, <<92>>, KeyEscape, KeyUp, KeyDown,
      PasteStart, PasteEnd, Bracketed(PasteLarge) }

CaptureBounded ==
    /\ TypedLength <= MaxCaptureText
    /\ MarkerCount <= 1
    /\ pasteCounter <= 1
    /\ Len(pasteBuffer) <= MaxCaptureBuffer
    /\ CursorBounded

CaptureHandleInput ==
    \E data \in CaptureInputs :
        OpHandleInput(data) /\ CaptureBounded' /\ UNCHANGED log

\* The entry "a"
CaptureAddToHistory ==
    history = <<>> /\ OpAddToHistory(<<97>>) /\ UNCHANGED log

CaptureSetAutocompleteProvider ==
    ~hasProvider /\ OpSetAutocompleteProvider /\ UNCHANGED log

NextCapture ==
    CaptureHandleInput \/ CaptureAddToHistory \/ CaptureSetAutocompleteProvider

SpecCapture == Init /\ [][NextCapture]_vars

\* ------------------------------------------------------------------------
\* Specification SpecPadding: the horizontal padding is configured, from
\* below zero up to MaxConfiguredPadding, the border style changed, and the
\* editor rendered at every width up to MaxPaddingWidth.
\* ------------------------------------------------------------------------

MaxConfiguredPadding == 3
MaxPaddingWidth == 6

\* "", "a" and "aa a"
PaddingTexts == { <<>>, <<97>>, <<97, 97, 32, 97>> }

\* editor.setPaddingX(padding)
OpSetPaddingX(padding) ==
    /\ Commit(setPaddingX(Begin(Ed), padding))
    /\ frame' = <<>>
    /\ lastOp' = Op("setPaddingX", <<padding>>)

PaddingSetPaddingX ==
    \E padding \in (-1)..MaxConfiguredPadding :
        padding # paddingX /\ OpSetPaddingX(padding) /\ UNCHANGED log

PaddingRender ==
    \E width \in 1..MaxPaddingWidth : OpRender(width) /\ UNCHANGED log

PaddingSetText ==
    \E text \in PaddingTexts : OpSetText(text) /\ UNCHANGED log

PaddingSetFocused ==
    \E value \in BOOLEAN : value # focused /\ OpSetFocused(value) /\ UNCHANGED log

PaddingSetBorderStyle ==
    \E style \in {"rounded", "sharp", "none"} :
        style # borderStyle /\ OpSetBorderStyle(style) /\ UNCHANGED log

NextPadding ==
    \/ PaddingSetPaddingX
    \/ PaddingRender
    \/ PaddingSetText
    \/ PaddingSetFocused
    \/ PaddingSetBorderStyle

SpecPadding == Init /\ [][NextPadding]_vars

\* ------------------------------------------------------------------------
\* Specification SpecIds: up to MaxIds large pastes between two submits, in
\* one chunk, in two chunks or two in the same chunk, next to setText and
\* the submit key with and without disableSubmit.
\* ------------------------------------------------------------------------

MaxIds == 2

\* Eleven lines, the last one "b"
PasteLargeB == PasteLarge \o <<98>>

\* Two large pastes in one chunk
PasteTwice == Bracketed(PasteLarge) \o Bracketed(PasteLargeB)

\* A large paste followed by the submit key in one chunk
PasteThenSubmit == Bracketed(PasteLargeB) \o KeyEnter

IdsInputs ==
    { Bracketed(PasteLarge), Bracketed(PasteLargeB), PasteTwice, PasteThenSubmit,
      PasteOpening, PasteClosing, KeyEnter }

IdsBounded ==
    /\ pasteCounter <= MaxIds
    /\ Len(JoinLines(lines)) <= 2 * Len(PasteMarker(1, 11, 10))
    /\ Len(pasteBuffer) <= Len(PasteOpening) - Len(PasteStart)

\* The closing chunk of the two-chunk paste is sent after its opening chunk
IdsHandleInput ==
    \E data \in IdsInputs :
        /\ data = PasteClosing => isInPaste
        /\ OpHandleInput(data) /\ IdsBounded' /\ UNCHANGED log

\* setText(""): the buffer is emptied, the paste table is not
IdsSetText ==
    ~isEditorEmpty(Ed) /\ OpSetText(<<>>) /\ UNCHANGED log

IdsSetDisableSubmit ==
    \E value \in BOOLEAN :
        value # disableSubmit /\ OpSetDisableSubmit(value) /\ UNCHANGED log

NextIds == IdsHandleInput \/ IdsSetText \/ IdsSetDisableSubmit

SpecIds == Init /\ [][NextIds]_vars

\* ------------------------------------------------------------------------
\* Specification SpecIndex: addToHistory, setText, the submit key, typing,
\* backspace and cursorUp/cursorDown in any order, with up to
\* MaxIndexHistory entries in the history.
\* ------------------------------------------------------------------------

MaxIndexHistory == 2
MaxIndexText == 3

\* "a", "b", " a " and "a\nb"
IndexEntries == { <<97>>, <<98>>, <<32, 97, 32>>, <<97, 10, 98>> }

\* "" and "a\nb"
IndexTexts == { <<>>, <<97, 10, 98>> }

IndexInputs == { <<97>>, KeyUp, KeyDown, KeyBackspace, KeyEnter }

IndexBounded == Len(JoinLines(lines)) <= MaxIndexText /\ CursorBounded

IndexHandleInput ==
    \E data \in IndexInputs : OpHandleInput(data) /\ IndexBounded' /\ UNCHANGED log

IndexAddToHistory ==
    \E text \in IndexEntries :
        Len(history) < MaxIndexHistory /\ OpAddToHistory(text) /\ UNCHANGED log

IndexSetText ==
    \E text \in IndexTexts : OpSetText(text) /\ UNCHANGED log

NextIndex == IndexHandleInput \/ IndexAddToHistory \/ IndexSetText

SpecIndex == Init /\ [][NextIndex]_vars

\* ------------------------------------------------------------------------
\* Specification SpecArrow: cursorUp and cursorDown over wrapped and
\* unwrapped lines, with a history entry that cursorUp on the empty buffer
\* recalls.  log holds the arrow key just pressed with the cursor and the
\* history index it started from, and is emptied by every other operation.
\* ------------------------------------------------------------------------

MaxArrowLength == 4
MaxArrowWidth == 2

\* "", lines over "a" and " ", and "aa" above "a"
ArrowTexts ==
    { <<>>, <<97, 97, 10, 97>> }
    \cup UNION {[1..n -> {97, 32}] : n \in 1..MaxArrowLength}

ArrowSetText ==
    \E text \in ArrowTexts : OpSetText(text) /\ log' = <<>>

ArrowRender ==
    \E width \in 1..MaxArrowWidth : OpRender(width) /\ log' = <<>>

\* The entry "aaa"
ArrowAddToHistory ==
    history = <<>> /\ OpAddToHistory(<<97, 97, 97>>) /\ log' = <<>>

ArrowLeft ==
    OpHandleInput(KeyLeft) /\ CursorBounded' /\ log' = <<>>

ArrowUp ==
    /\ OpHandleInput(KeyUp)
    /\ CursorBounded'
    /\ log' = <<LogEntry("cursorUp", <<cursorLine, cursorCol, historyIndex>>)>>

ArrowDown ==
    /\ OpHandleInput(KeyDown)
    /\ CursorBounded'
    /\ log' = <<LogEntry("cursorDown", <<cursorLine, cursorCol, historyIndex>>)>>

NextArrow ==
    \/ ArrowSetText
    \/ ArrowRender
    \/ ArrowAddToHistory
    \/ ArrowLeft
    \/ ArrowUp
    \/ ArrowDown

SpecArrow == Init /\ [][NextArrow]_vars

\* ------------------------------------------------------------------------
\* Specification SpecOrder: events that carry text, in any order: "a", a
\* lone backslash, the paste "b" in one chunk and the paste "bb" in two
\* chunks, the second followed by "a".  No event is "\r".  log holds the
\* chunks received so far.
\* ------------------------------------------------------------------------

MaxOrderEvents == 4

OrderKeys == { <<97>>, <<92>> }

OrderChunks == { Bracketed(PasteLine), BackslashOpening, BackslashClosing }

\* A chunk with the start marker opens a paste, the closing chunk ends one
OrderHandleInput ==
    \E data \in OrderKeys \cup OrderChunks :
        /\ Len(log) < MaxOrderEvents
        /\ Includes(data, PasteStart) => ~isInPaste
        /\ data = BackslashClosing => isInPaste
        /\ OpHandleInput(data)
        /\ log' = Append(log, data)

\* setText(""): the buffer is emptied and the record of the events with it
OrderSetText ==
    /\ ~pendingShiftEnter /\ ~isInPaste /\ log # <<>>
    /\ OpSetText(<<>>)
    /\ log' = <<>>

NextOrder == OrderHandleInput \/ OrderSetText

SpecOrder == Init /\ [][NextOrder]_vars

\* ------------------------------------------------------------------------
\* Specification SpecSinks: the submit key on typed buffers of one or two
\* lines, after a paste in the same chunk, as the confirm key of a slash
\* command in the overlay, after a held backslash and with disableSubmit.
\* ------------------------------------------------------------------------

MaxSinksText == 3

\* The paste "b" followed by the submit key in one chunk
PasteLineThenSubmit == Bracketed(PasteLine) \o KeyEnter

\* "/", "a", " ", "\", the keys, and the paste with the submit key
SinksInputs ==
    { <<47>>, <<97>>, <<32>>, <<92>>, KeyEnter, KeyShiftEnter, KeyBackspace,
      KeyDown, PasteLineThenSubmit }

SinksBounded == Len(JoinLines(lines)) <= MaxSinksText

SinksHandleInput ==
    \E data \in SinksInputs : OpHandleInput(data) /\ SinksBounded' /\ UNCHANGED log

SinksSetAutocompleteProvider ==
    ~hasProvider /\ OpSetAutocompleteProvider /\ UNCHANGED log

SinksSetDisableSubmit ==
    \E value \in BOOLEAN :
        value # disableSubmit /\ OpSetDisableSubmit(value) /\ UNCHANGED log

NextSinks == SinksHandleInput \/ SinksSetAutocompleteProvider \/ SinksSetDisableSubmit

SpecSinks == Init /\ [][NextSinks]_vars

\* ------------------------------------------------------------------------
\* Specification SpecBindings: the submit key with the overlay open, under
\* the default keybinding table and under a table that binds submit to
\* ctrl+s, a key the overlay does not capture.
\* ------------------------------------------------------------------------

MaxBindingsText == 2

\* "/", "@", "a", the enter key, ctrl+s and escape
BindingsInputs == { <<47>>, <<64>>, <<97>>, KeyEnter, KeyCtrlS, KeyEscape }

\* The tables the host installs: submit on enter, or submit on ctrl+s
BindingsTables == { {KeyEnter}, {KeyCtrlS} }

BindingsBounded == Len(JoinLines(lines)) <= MaxBindingsText

BindingsHandleInput ==
    \E data \in BindingsInputs :
        OpHandleInput(data) /\ BindingsBounded' /\ UNCHANGED log

BindingsSetAutocompleteProvider ==
    ~hasProvider /\ OpSetAutocompleteProvider /\ UNCHANGED log

BindingsSetEditorKeybindings ==
    \E keys \in BindingsTables :
        keys # submitKeys /\ OpSetEditorKeybindings(keys) /\ UNCHANGED log

NextBindings ==
    \/ BindingsHandleInput
    \/ BindingsSetAutocompleteProvider
    \/ BindingsSetEditorKeybindings

SpecBindings == Init /\ [][NextBindings]_vars

\* ------------------------------------------------------------------------
\* Specification SpecDecode: input chunks holding no, one or several paste
\* markers, whole or split, in every order.  The log keeps each chunk with
\* the calls of handleInput it caused.
\* ------------------------------------------------------------------------

MaxDecodeEvents == 3

\* The editor in paste mode once the data, less its first start marker, is
\* appended to the paste buffer
BufferedBy(e, data) ==
    [StartPaste(e, data) EXCEPT !.pasteBuffer = @ \o StripPasteStart(data)]

\* The endIndex of the call handleInput(data), -1 outside paste mode
EndIndexOf(e, data) ==
    IF StartPaste(e, data).isInPaste
    THEN IndexOf(BufferedBy(e, data).pasteBuffer, PasteEnd) ELSE -1

\* The string `remaining` of the call handleInput(data)
RemainingOf(e, data) ==
    IF EndIndexOf(e, data) = -1 THEN <<>>
    ELSE JsSliceFrom(BufferedBy(e, data).pasteBuffer, EndIndexOf(e, data) + 6)

\* The editor when the call handleInput(data) tests remaining.length
EditorAtRedecode(e, data) ==
    PasteContent(BufferedBy(e, data),
        JsSubstring(BufferedBy(e, data).pasteBuffer, 0, EndIndexOf(e, data)))

\* Whether the call handleInput(data) calls handleInput(remaining)
Redecodes(e, data) ==
    /\ EndIndexOf(e, data) # -1
    /\ Len(RemainingOf(e, data)) > 0
    /\ ~EditorAtRedecode(e, data).thrown

\* The calls of handleInput that handleInput(data) causes, itself first; no
\* more than fuel nested calls are followed
RECURSIVE CallsOf(_, _, _)
CallsOf(e, data, fuel) ==
    IF fuel = 0 \/ ~Redecodes(e, data) THEN << [editor |-> e, data |-> data] >>
    ELSE << [editor |-> e, data |-> data] >>
         \o CallsOf(EditorAtRedecode(e, data), RemainingOf(e, data), fuel - 1)

\* A chunk as the log keeps it: its bytes, the calls it caused, and whether
\* the innermost of them leaves the editor handleInput(data) leaves
Decoded(e, data, calls) ==
    [data |-> data, calls |-> calls,
     same |-> handleInput(calls[Len(calls)].editor, calls[Len(calls)].data)
                 = handleInput(e, data)]

\* "ESC[20" and "1~a": an end marker split over two chunks
EndHead == <<27, 91, 50, 48>>
EndTail == <<49, 126, 97>>

\* Two pastes with "a" after each, an end marker before a start marker, a
\* paste followed by a start marker, and two start markers before two end
\* markers
TwoPastes == Bracketed(PasteLine) \o <<97>> \o Bracketed(PasteLine) \o <<97>>
EndThenStart == PasteEnd \o PasteStart
PasteThenStart == Bracketed(PasteLine) \o PasteStart
NestedPastes == PasteStart \o PasteStart \o PasteLine \o PasteEnd \o PasteEnd

DecodeChunks ==
    { <<97>>, BackslashOpening, BackslashClosing, EndHead, EndTail,
      TwoPastes, EndThenStart, PasteThenStart, NestedPastes }

DecodeHandleInput ==
    \E data \in DecodeChunks :
        /\ Len(log) < MaxDecodeEvents
        /\ OpHandleInput(data)
        /\ log' = Append(log, Decoded(Begin(Ed), data,
                                      CallsOf(Begin(Ed), data, Len(data) + 1)))

\* setText("") between two streams of chunks, when no paste is open
DecodeSetText ==
    /\ log # <<>> /\ ~isInPaste
    /\ OpSetText(<<>>)
    /\ log' = <<>>

NextDecode == DecodeHandleInput \/ DecodeSetText

SpecDecode == Init /\ [][NextDecode]_vars

\* ------------------------------------------------------------------------
\* Properties
\* ------------------------------------------------------------------------

\* The operations that take input or text
IsEditOp == lastOp.op \in {"handleInput", "setText", "insertTextAtCursor"}

\* C1: after every handleInput, setText and insertTextAtCursor the buffer
\* has at least one line, the cursor line is a line of the buffer, and the
\* cursor column lies between 0 and the length of that line.
C1_CursorInBounds ==
    IsEditOp =>
        /\ Len(lines) >= 1
        /\ cursorLine >= 0 /\ cursorLine < Len(lines)
        /\ cursorCol >= 0 /\ cursorCol <= Len(LineAt(Ed, cursorLine))

\* C2: after every handleInput, setText and insertTextAtCursor no logical
\* line contains a newline character.
C2_NoNewlineInLines ==
    IsEditOp => \A i \in 1..Len(lines) : ~Includes(lines[i], <<10>>)

\* The code-unit offsets that lie between two grapheme clusters of s
GraphemeBoundaries(s) ==
    {Len(Concat(SubSeq(Segment(s), 1, k))) : k \in 0..Len(Segment(s))}

\* C3: after every input event the cursor column lies on a grapheme
\* boundary of the cursor's line.
C3_CursorOnGraphemeBoundary ==
    lastOp.op = "handleInput" =>
        cursorCol \in GraphemeBoundaries(LineAt(Ed, cursorLine))

\* C4: every line render(W) returns (borders, content rows, overlay rows)
\* has visible width exactly W.
C4_RenderWidth ==
    lastOp.op = "render" =>
        \A i \in 1..Len(frame) : visibleWidth(frame[i].text) = lastOp.arg[1]

\* C5: an input event that changes the buffer calls the change sink exactly
\* once, with the text after the change; an input event that does not
\* change the buffer does not call it.
C5_ChangeOncePerMutation ==
    [][lastOp'.op = "handleInput" =>
          changeCalls' = IF lines' # lines THEN <<JoinLines(lines')>> ELSE <<>>]_vars

\* The text a paste leaves after cleaning: newlines normalized, tabs
\* expanded, non-printable code units dropped
NormalizedPaste(payload) == FilterPrintable(ExpandTabs(NormalizeNewlines(payload)))

\* C6: a bracketed paste of s into the empty editor followed by the submit
\* key hands trim(normalized s) to the submit sink, for a small paste and
\* for a large paste stored behind a marker.
C6_PasteThenSubmit ==
    [][\A payload \in SubmitPayloads :
          (/\ lastOp = [op |-> "handleInput", arg |-> Bracketed(payload), empty |-> TRUE]
           /\ ~disableSubmit
           /\ lastOp'.op = "handleInput" /\ lastOp'.arg = KeyEnter)
          => submitCalls' = <<Trim(NormalizedPaste(payload))>>]_vars

\* C7: after a submit that is not suppressed the buffer is one empty line,
\* the cursor is at (0,0), the paste table is empty, the paste counter is 0,
\* historyIndex is -1 and scrollOffset is 0.
C7_SubmitResets ==
    (lastOp.op = "handleInput" /\ submitCalls # <<>>) =>
        /\ lines = << <<>> >>
        /\ cursorLine = 0 /\ cursorCol = 0
        /\ pastes = <<>> /\ pasteCounter = 0
        /\ historyIndex = -1
        /\ scrollOffset = 0

\* A submit that expanded the marker of a large paste has just happened
C7_Witness ==
    /\ lastOp.op = "handleInput" /\ lastOp.arg = KeyEnter
    /\ Len(submitCalls) = 1
    /\ Includes(submitCalls[1], <<97, 10, 97>>)
    /\ pastes = <<>>

\* C8: while disableSubmit is set the submit key calls neither sink and
\* changes neither the lines, the cursor, the paste table, historyIndex nor
\* the overlay.
C8_DisabledSubmitIsInert ==
    [][(disableSubmit /\ lastOp'.op = "handleInput" /\ lastOp'.arg = KeyEnter) =>
          /\ changeCalls' = <<>> /\ submitCalls' = <<>>
          /\ UNCHANGED <<lines, cursorLine, cursorCol, pastes, pasteCounter,
                         historyIndex, isAutocompleting, autocompleteList,
                         autocompletePrefix>>]_vars

\* C9: the history holds only trimmed non-empty strings, no two adjacent
\* entries are equal, it has at most 100 entries, and an accepted entry is
\* at index 0 right after it was added.
C9_HistoryShape ==
    /\ \A i \in 1..Len(history) : history[i] # <<>> /\ Trim(history[i]) = history[i]
    /\ \A i \in 1..(Len(history) - 1) : history[i] # history[i + 1]
    /\ Len(history) <= 100
    /\ (lastOp.op = "addToHistory" /\ Trim(lastOp.arg) # <<>>) =>
           history[1] = Trim(lastOp.arg)

\* The history is full and " b " has just been added on top of "a"
C9_Witness ==
    /\ Len(history) = 100
    /\ lastOp.op = "addToHistory" /\ lastOp.arg = <<32, 98, 32>>
    /\ history[1] = <<98>> /\ history[2] = <<97>>

\* The keys of the recall scenario: Up, Up, Down, Down
RecallKeys == <<KeyUp, KeyUp, KeyDown, KeyDown>>

KeyEntries(k) == [i \in 1..k |-> LogEntry("handleInput", RecallKeys[i])]

\* The buffer the scenario expects after its k-th key
Expected(s1, s2, k) ==
    CASE k = 1 -> s2 [] k = 2 -> s1 [] k = 3 -> s2 [] OTHER -> <<>>

\* s1 and s2 were set and submitted with the submit key, then k keys pressed
AfterSubmits(s1, s2, k) ==
    Script = <<LogEntry("setText", s1), LogEntry("handleInput", KeyEnter),
               LogEntry("setText", s2), LogEntry("handleInput", KeyEnter)>>
             \o KeyEntries(k)

\* s1 and s2 were added with addToHistory, then k keys pressed
AfterAdds(s1, s2, k) ==
    Script = <<LogEntry("addToHistory", s1), LogEntry("addToHistory", s2)>>
             \o KeyEntries(k)

\* C10 as stated: after s1 and s2 are submitted with the submit key, Up
\* sets the buffer to s2, Up to s1, Down to s2, Down to the empty buffer.
C10_RecallAfterSubmitKey ==
    \A s1 \in RecallTexts : \A s2 \in RecallTexts : \A k \in 1..Len(RecallKeys) :
        (s1 # s2 /\ AfterSubmits(s1, s2, k)) =>
            JoinLines(lines) = Expected(s1, s2, k)

\* The text is one line no wider than the width the last render stored
FitsOneVisualLine(text) ==
    Len(SplitLines(NormalizeNewlines(text))) = 1 /\ visibleWidth(text) <= lastWidth

\* C10 as amended: after addToHistory(s1) and addToHistory(s2), the trimmed
\* texts distinct and trim(s2) one visual line, Up sets the buffer to
\* trim(s2), Up to trim(s1), Down to trim(s2), Down to the empty buffer
\* (line ends of an entry normalized to "\n").
C10_RecallAfterAddToHistory ==
    \A s1 \in RecallTexts : \A s2 \in RecallTexts : \A k \in 1..Len(RecallKeys) :
        (/\ Trim(s1) # <<>> /\ Trim(s2) # <<>> /\ Trim(s1) # Trim(s2)
         /\ FitsOneVisualLine(Trim(s2))
         /\ AfterAdds(s1, s2, k)) =>
            /\ JoinLines(lines) = NormalizeNewlines(Expected(Trim(s1), Trim(s2), k))
            /\ historyIndex = (CASE k = 1 -> 0 [] k = 2 -> 1 [] k = 3 -> 0 [] OTHER -> -1)

\* After a render, "a\rb" and " b" were added and Up pressed twice: the
\* buffer holds the older entry
C10_Witness ==
    /\ log # <<>> /\ log[1].op = "render"
    /\ AfterAdds(<<97, 13, 98>>, <<32, 98>>, 2)
    /\ lines = << <<97>>, <<98>> >>
    /\ historyIndex = 1

\* Whether the arrow key of the step may browse the history from the state
\* before it: cursorUp on the empty editor, or on the first visual line
\* while browsing; cursorDown on the last visual line while browsing
MayBrowse(data) ==
    IF data = KeyUp
    THEN isEditorEmpty(Ed) \/ (historyIndex > -1 /\ isOnFirstVisualLine(Ed))
    ELSE historyIndex > -1 /\ isOnLastVisualLine(Ed)

\* The step is cursorUp or cursorDown
IsVerticalArrowStep ==
    lastOp'.op = "handleInput" /\ lastOp'.arg \in {KeyUp, KeyDown}

\* C11 as stated: cursorUp and cursorDown leave historyIndex and the buffer
\* unchanged in every state other than the ones where they may browse the
\* history.
C11_BrowseOnlyFromEdge ==
    [][(IsVerticalArrowStep /\ ~MayBrowse(lastOp'.arg)) =>
          UNCHANGED <<historyIndex, lines>>]_vars

\* C11 as amended: with no backslash pending, cursorUp and cursorDown leave
\* historyIndex and the buffer unchanged in every state other than the ones
\* where they may browse the history; with a backslash pending (and no paste
\* in progress) they leave historyIndex at -1.
C11_BrowseOnlyFromEdgeUnlessPending ==
    [][/\ (IsVerticalArrowStep /\ ~pendingShiftEnter /\ ~MayBrowse(lastOp'.arg)) =>
              UNCHANGED <<historyIndex, lines>>
       /\ (IsVerticalArrowStep /\ pendingShiftEnter /\ ~isInPaste) =>
              historyIndex' = -1 /\ lines' # lines]_vars

\* The entry "a a" is browsed at content width 1 and cursorUp has moved the
\* cursor from its second visual line to its first: the entry stays
C11_Witness ==
    /\ lastOp.op = "handleInput" /\ lastOp.arg = KeyUp
    /\ history = << <<97, 32, 97>> >> /\ historyIndex = 0
    /\ lastWidth = 1
    /\ lines = << <<97, 32, 97>> >> /\ cursorCol = 1

\* The step is a handleInput other than cursorUp and cursorDown, or a
\* setText or insertTextAtCursor, and it changes the buffer text
MutatesText ==
    /\ \/ lastOp'.op = "handleInput" /\ lastOp'.arg \notin {KeyUp, KeyDown}
       \/ lastOp'.op \in {"setText", "insertTextAtCursor"}
    /\ lines' # lines

\* C12: every operation that mutates the buffer text (typing, newline,
\* deletions, paste, setText, applying a completion with tab or
\* selectConfirm) leaves historyIndex at -1.
C12_MutationLeavesBrowsing ==
    [][MutatesText => historyIndex' = -1]_vars

\* What the provider suggests for the editor's lines and cursor
SuggestionsNow ==
    ProviderGetSuggestions(lines, cursorLine, cursorCol)

\* The step is a character insert, a backspace, a delete to the start of the
\* line or a newline (the held backslash followed by carriage return) taken
\* with the overlay active, and it changes the buffer text
MutatesUnderOverlay ==
    /\ isAutocompleting /\ hasProvider
    /\ lastOp'.op = "handleInput"
    /\ lastOp'.arg \in {<<47>>, <<97>>, KeyBackspace, KeyCtrlU, <<13>>}
    /\ \/ lastOp'.arg # <<13>>
       \/ pendingShiftEnter
    /\ lines' # lines

\* C19: after every buffer mutation made while the overlay is active, the
\* overlay shows what the provider suggests for the lines and cursor after
\* the mutation, and it is inactive when the provider suggests nothing.
C19_MutationRefreshesOverlay ==
    [][MutatesUnderOverlay =>
          /\ (SuggestionsNow'.items = <<>>) => ~isAutocompleting'
          /\ isAutocompleting' =>
                /\ autocompleteList'.items = SuggestionsNow'.items
                /\ autocompletePrefix' = SuggestionsNow'.prefix]_vars

\* The step is selectConfirm taken with the overlay active and an item
\* selected
ConfirmStep ==
    /\ isAutocompleting /\ autocompleteList # NoList /\ HasSelection(Ed)
    /\ lastOp'.op = "handleInput" /\ lastOp'.arg = KeyEnter

\* The selected completion applied to the editor before the step
Applied == ApplySelected(Ed)

\* The step leaves the lines and the cursor of the applied completion
LeavesApplied ==
    /\ lines' = Applied.lines
    /\ cursorLine' = Applied.cursorLine
    /\ cursorCol' = Applied.cursorCol

\* selectConfirm on a prefix that is no slash command: the completion is
\* applied, the change sink receives the applied text, nothing is submitted
ConfirmKeepsEditing ==
    /\ LeavesApplied
    /\ changeCalls' = <<JoinLines(Applied.lines)>>
    /\ submitCalls' = <<>>

C20_WitnessSubmit ==
    /\ lastOp.op = "handleInput" /\ lastOp.arg = KeyEnter
    /\ submitCalls = << <<47, 97>> >>
    /\ hasProvider /\ ~isAutocompleting /\ ~disableSubmit

\* The step is a submit key that reached the submit sink
SubmitStep ==
    /\ lastOp'.op = "handleInput" /\ lastOp'.arg = KeyEnter
    /\ submitCalls' # <<>>

\* Every entry of the paste table before the step is in it after the step
PastesKept ==
    \A i \in 1..Len(pastes) : \E j \in 1..Len(pastes') : pastes'[j] = pastes[i]

\* C15 as stated: every history entry and every paste-table entry present
\* before a submit is still present after it.
C15_SubmitKeepsHistoryAndPastes ==
    [][SubmitStep => (history' = history /\ PastesKept)]_vars

\* C15 as amended: every history entry present before a submit is still
\* present after it, in the same order; the paste table is empty after it.
C15_SubmitKeepsHistory ==
    [][SubmitStep => (history' = history /\ pastes' = <<>>)]_vars

\* A submit that expanded the marker of a large paste has just happened
\* with the entry "a" in the history: the entry is still there
C15_Witness ==
    /\ lastOp.op = "handleInput" /\ lastOp.arg = KeyEnter
    /\ Len(submitCalls) = 1
    /\ Includes(submitCalls[1], <<10, 97, 10>>)
    /\ history = << <<97>> >>
    /\ pastes = <<>>

\* The step is handleInput with the payload as one whole bracketed paste
PastedIn(payload) ==
    lastOp'.op = "handleInput" /\ lastOp'.arg = Bracketed(payload)

\* The 0-based offset of the cursor in the buffer text
CursorOffset ==
    Len(JoinLines(SubSeq(lines, 1, cursorLine + 1))) - Len(lines[cursorLine + 1])
    + cursorCol

\* The buffer text with t inserted at offset p
InsertedAt(text, t, p) == SubSeq(text, 1, p) \o t \o SubSeq(text, p + 1, Len(text))

\* The step inserts t, whole, into the buffer text: at the cursor when the
\* cursor is within its line
InsertsAtCursor(t) ==
    \E p \in 0..Len(JoinLines(lines)) :
        /\ (cursorCol >= 0 /\ cursorCol <= Len(lines[cursorLine + 1])) => p = CursorOffset
        /\ JoinLines(lines') = InsertedAt(JoinLines(lines), t, p)

\* What C13 asks of the paste of a cleaned text
PasteOutcome(cleaned, lineCount) ==
    IF lineCount > LargePasteLines \/ Len(cleaned) > LargePasteChars
    THEN /\ pastes' = Append(pastes, [id |-> pasteCounter + 1, content |-> cleaned])
         /\ InsertsAtCursor(PasteMarker(pasteCounter + 1, lineCount, Len(cleaned)))
    ELSE /\ pastes' = pastes
         /\ InsertsAtCursor(cleaned)

PasteOutcomeOf(cleaned) == PasteOutcome(cleaned, Len(SplitLines(cleaned)))

\* C13: a paste whose cleaned text has more than 10 lines or more than 1000
\* characters adds exactly one paste-table entry holding the cleaned text
\* and inserts exactly one marker at the cursor; a smaller paste adds no
\* entry and splices its text at the cursor.
C13_LargePasteStoredAndMarked ==
    [][\A payload \in PastePayloads :
          PastedIn(payload) => PasteOutcomeOf(CleanPaste(Ed, payload))]_vars

\* The ids a marker in the buffer may carry
MarkerIds == 0..(MaxPasteIds + 1)

\* A marker with the id occurs in the text: what the submit's regular
\* expression for that id matches
HasMarker(text, pasteId) ==
    \E i \in 0..(Len(text) - 1) : MarkerMatchLen(text, i, pasteId) > 0

\* The paste table has an entry for the id
HasPaste(pasteId) == \E i \in 1..Len(pastes) : pastes[i].id = pasteId

\* C14: in every reachable state, each paste marker with id k in the buffer
\* text has an entry for k in the paste table.
C14_MarkerHasEntry ==
    \A k \in MarkerIds : HasMarker(JoinLines(lines), k) => HasPaste(k)

\* The step is a handleInput chunk of a bracketed paste: it holds the start
\* marker, or a paste is in progress
PasteChunkStep ==
    /\ lastOp'.op = "handleInput"
    /\ isInPaste \/ Includes(lastOp'.arg, PasteStart)

\* The paste buffer once the chunk is appended: the chunk less its first
\* start marker, or what earlier chunks accumulated and the chunk
Accumulated(data) ==
    IF Includes(data, PasteStart) THEN StripPasteStart(data)
    ELSE pasteBuffer \o data

\* The bytes that precede the start marker in the chunk
BeforeStart(data) ==
    IF Includes(data, PasteStart) THEN JsSubstring(data, 0, IndexOf(data, PasteStart))
    ELSE <<>>

\* The bytes of the paste as the claim has them: the accumulated bytes
\* without those that precede the start marker in its chunk
BetweenMarkers(data) == JsSliceFrom(Accumulated(data), Len(BeforeStart(data)))

\* The editor the paste starts from: the one before the step, or the one
\* after the bytes that precede the start marker are decoded as input
PasteBases(prefix) ==
    {Begin(Ed)} \cup (IF prefix = <<>> THEN {} ELSE {handleInput(Begin(Ed), prefix)})

\* The editor after the text between the markers is handed to handlePaste
\* and the bytes after the end marker are decoded as ordinary input
PasteHandedOver(e, between, rest) ==
    HandleRemaining(PasteContent(e, between), rest)

\* Without the end marker the chunk only accumulates; with it the paste is
\* handed over
PasteEndsAt(base, bytes, endIndex) ==
    IF endIndex = -1
    THEN Ed' = [base EXCEPT !.isInPaste = TRUE, !.pasteBuffer = bytes]
    ELSE Ed' = PasteHandedOver(base, JsSubstring(bytes, 0, endIndex),
                               JsSliceFrom(bytes, endIndex + Len(PasteEnd)))

PasteOf(base, bytes) == PasteEndsAt(base, bytes, IndexOf(bytes, PasteEnd))

\* C16: the text handed to paste ingestion is exactly the bytes between the
\* start marker and the end marker, whatever precedes the start marker in
\* its chunk and however many chunks carry the paste; until the end marker
\* arrives no chunk changes the buffer, submits or changes the overlay; the
\* bytes after the end marker are decoded as ordinary input.
C16_PasteIsBetweenMarkers ==
    [][PasteChunkStep =>
          \E base \in PasteBases(BeforeStart(lastOp'.arg)) :
              PasteOf(base, BetweenMarkers(lastOp'.arg))]_vars

\* The step is handleInput of the data
InputStep(data) == lastOp'.op = "handleInput" /\ lastOp'.arg = data

\* The step adds one line break to the buffer and no character
OneNewlineInserted ==
    Len(lines') = Len(lines) + 1 /\ Concat(lines') = Concat(lines)

\* The editor after the held backslash is inserted at the cursor and the
\* data then handled with no backslash pending
BackslashThen(data) ==
    handleInput(insertCharacter([Begin(Ed) EXCEPT !.pendingShiftEnter = FALSE], <<92>>),
                data)

\* What C17 says of the step, for the events of a set
BackslashProtocol(events) ==
    /\ (~pendingShiftEnter /\ InputStep(<<92>>)) =>
          /\ UNCHANGED <<lines, cursorLine, cursorCol>>
          /\ pendingShiftEnter'
    /\ (pendingShiftEnter /\ InputStep(<<13>>)) =>
          OneNewlineInserted /\ ~pendingShiftEnter'
    /\ \A data \in events \ {<<13>>} :
          (pendingShiftEnter /\ InputStep(data)) => Ed' = BackslashThen(data)

\* C17 as stated: a lone backslash leaves the buffer unchanged and is held;
\* a following carriage return inserts exactly one newline and no
\* backslash; any other following event inserts the backslash at the cursor
\* and is then processed as without the held backslash.
C17_BackslashHeld ==
    [][BackslashProtocol(BackslashKeys \cup BackslashChunks)]_vars

\* The same while no bracketed paste is in progress, the following event
\* being a key or a chunk that starts a paste
BackslashHeldNoPasteOpen ==
    [][~isInPaste => BackslashProtocol(BackslashKeys \cup BackslashChunks)]_vars

\* The same while no bracketed paste is in progress and for following events
\* that hold no paste start marker
BackslashHeldOutsidePaste ==
    [][~isInPaste => BackslashProtocol(BackslashKeys)]_vars

\* "a" was typed after a held backslash: the buffer is "\a"
C17_Witness ==
    /\ lastOp.op = "handleInput" /\ lastOp.arg = <<97>>
    /\ lines = << <<92, 97>> >>
    /\ cursorCol = 2
    /\ ~pendingShiftEnter

\* Whether the bit (a power of two) is among the bits of x, for x >= -1
HasBit(x, bit) == (x \div bit) % 2 = 1

\* The codepoint C18 names for the sequence: the shifted one when the Shift
\* bit of m - 1 is set and it is present, else cp
EffectiveCodepoint(cp, sh, bits) ==
    IF HasBit(bits, 1) /\ sh # Absent THEN sh ELSE cp

\* The step leaves the buffer, the cursor and the sinks alone
NothingInserted ==
    /\ UNCHANGED <<lines, cursorLine, cursorCol>>
    /\ changeCalls' = <<>> /\ submitCalls' = <<>>

\* The step inserts the one character at the cursor and moves the cursor
\* past it
CharacterInserted(codepoint) ==
    /\ JoinLines(lines') = InsertedAt(JoinLines(lines), <<codepoint>>, CursorOffset)
    /\ cursorLine' = cursorLine /\ cursorCol' = cursorCol + 1

KittyOutcome(bits, effective) ==
    IF HasBit(bits, 2) \/ HasBit(bits, 4) \/ effective < 32
    THEN NothingInserted
    ELSE CharacterInserted(effective)

KittyOutcomeOf(cp, sh, bits) == KittyOutcome(bits, EffectiveCodepoint(cp, sh, bits))

\* C18: a CSI-u sequence with codepoint cp, optional shifted codepoint sh
\* and modifier field m (default 1) that no binding takes inserts nothing
\* when the bits of m - 1 include Alt or Ctrl; otherwise it inserts sh when
\* the Shift bit is set and sh is present, else cp; and nothing when that
\* codepoint is below 32.
C18_KittyPrintable ==
    [][\A cp \in KittyCodepoints, sh \in KittyShiftedCodepoints,
          m \in KittyModifierFields :
          InputStep(CsiU(cp, sh, m)) =>
              KittyOutcomeOf(cp, sh, (IF m = Absent THEN 1 ELSE m) - 1)]_vars

\* ESC [ 113 : 81 ; 2 u (q with Shift) was received after "q": the buffer
\* is "qQ"
C18_Witness ==
    /\ lastOp.op = "handleInput" /\ lastOp.arg = CsiU(113, 81, 2)
    /\ lines = << <<113, 81>> >>
    /\ cursorCol = 2

\* The rows of the last frame that carry the cursor-position marker
MarkedRows == {i \in 1..Len(frame) : frame[i].marker}

\* C21: in every frame render returns the cursor-position marker occurs at
\* most once, and it occurs only if the editor is focused and the
\* autocomplete overlay is inactive.
C21_CursorMarkerOnce ==
    lastOp.op = "render" =>
        /\ Cardinality(MarkedRows) <= 1
        /\ MarkedRows # {} => focused /\ ~isAutocompleting

\* The focused editor holds "a a", wrapped at content width 1 into more than
\* one row, and the frame carries the marker on one row
C21_Witness ==
    /\ lastOp.op = "render" /\ lastOp.arg = <<1>>
    /\ lines = << <<97, 32, 97>> >>
    /\ focused /\ ~isAutocompleting
    /\ Cardinality(MarkedRows) = 1

\* The overlay is shown on a focused editor and the frame was rendered
C21_WitnessOverlay ==
    /\ lastOp.op = "render"
    /\ focused /\ isAutocompleting
    /\ MarkedRows = {}

\* A call of the provider raised an error during the last operation.  The
\* editor has no handler around its provider calls, so this is the case
\* exactly when the operation ended by throwing.
ProviderRaised == thrown

\* The error reached the host
ErrorReachedHost == thrown

\* C22: if the provider raises an error in getSuggestions or in
\* applyCompletion during handleInput, handleInput returns normally, no
\* error reaches the host, and the overlay is inactive afterwards.
C22_ProviderErrorSwallowed ==
    (lastOp.op = "handleInput" /\ ProviderRaised) =>
        ~ErrorReachedHost /\ ~isAutocompleting

\* The chunk matches a named key binding or one of the keys asked for directly
MatchesBinding(data) ==
    \/ \E action \in DOMAIN KeyBindings : KbMatches(data, action)
    \/ \E key \in {"shift+backspace", "shift+delete", "shift+space"} : MatchesKey(data, key)

\* The step is handleInput of a malformed chunk that matches no binding
MalformedStep ==
    /\ lastOp'.op = "handleInput"
    /\ lastOp'.arg \in MalformedChunks
    /\ ~MatchesBinding(lastOp'.arg)

\* The step leaves the buffer, the cursor, the history index, the paste
\* table and the overlay as they were and calls no sink
SilentlyIgnored ==
    /\ UNCHANGED <<lines, cursorLine, cursorCol, historyIndex, pastes, pasteCounter,
                   isAutocompleting, autocompleteList, autocompletePrefix>>
    /\ changeCalls' = <<>>
    /\ submitCalls' = <<>>

\* C23: an input chunk that matches no named key binding and is an unknown
\* escape sequence, an incomplete CSI-u sequence, a lone "\n", or begins with
\* a byte below 32 is silently ignored: lines, cursor, history index, paste
\* table and overlay are unchanged and no sink is called.
C23_MalformedIgnored == [][MalformedStep => SilentlyIgnored]_vars

\* C23 for the lone "\n" with no backslash held
C23_LoneNewlineIgnored ==
    [][(MalformedStep /\ lastOp'.arg = <<10>> /\ ~pendingShiftEnter /\ ~isInPaste)
          => SilentlyIgnored]_vars

\* C23 for the chunks other than "\n" and "\n" before a letter, with no
\* backslash held: these are ignored
C23_OthersIgnored ==
    [][(MalformedStep /\ lastOp'.arg[1] # 10 /\ ~pendingShiftEnter) => SilentlyIgnored]_vars

\* s with every "\r\n" and every remaining "\r" replaced by "\n", read off
\* unit by unit
RECURSIVE WithLineFeeds(_)
WithLineFeeds(s) ==
    IF s = <<>> THEN <<>>
    ELSE IF s[1] # 13 THEN <<s[1]>> \o WithLineFeeds(Tail(s))
    ELSE IF Len(s) >= 2 /\ s[2] = 10 THEN <<10>> \o WithLineFeeds(SubSeq(s, 3, Len(s)))
    ELSE <<10>> \o WithLineFeeds(Tail(s))

\* C24: for every string s, after setText(s) getText() equals s with every
\* "\r\n" and every "\r" replaced by "\n", the cursor is at the end of the
\* last line, and historyIndex is -1.
C24_SetTextRoundTrip ==
    lastOp.op = "setText" =>
        /\ getText(Ed) = WithLineFeeds(lastOp.arg)
        /\ cursorLine = Len(lines) - 1
        /\ cursorCol = Len(lines[Len(lines)])
        /\ historyIndex = -1

\* setText("\r\r\n") was called on a buffer that was not empty, with the
\* entry "a" in the history: the buffer holds three empty lines
C24_Witness ==
    /\ lastOp.op = "setText" /\ lastOp.arg = <<13, 13, 10>>
    /\ lines = << <<>>, <<>>, <<>> >>
    /\ cursorLine = 2 /\ cursorCol = 0
    /\ history = << <<97>> >>
    /\ ~lastOp.empty

\* max(5, floor(0.3 * rows)) for the terminal height of the last render
MaxVisibleOfLastRender == Max(5, (3 * lastOp.arg[2]) \div 10)

\* The number of visual lines of the buffer at the content width of the
\* last render
VisualLineCount == Len(buildVisualLineMap(Ed, lastWidth))

\* C25: after every render 0 <= scrollOffset <= max(0, visual line count -
\* max visible), where max visible = max(5, floor(0.3 * terminal rows)), for
\* every buffer, width and terminal height, also when the buffer shrank or
\* the terminal grew since the previous render.
C25_ScrollOffsetInRange ==
    lastOp.op = "render" =>
        /\ scrollOffset >= 0
        /\ scrollOffset <= Max(0, VisualLineCount - MaxVisibleOfLastRender)

\* The terminal has grown to 24 rows with the cursor on the last of nine
\* lines: the window of seven rows ends at the last line
C25_Witness ==
    /\ lastOp.op = "render" /\ lastOp.arg[2] = 24
    /\ Len(lines) = 9 /\ cursorLine = 8
    /\ scrollOffset = 2

\* The chunks of the cursor's logical line at the content width of the last
\* render
CursorLineChunks == wordWrapLine(LineAt(Ed, cursorLine), lastWidth)

\* Whether white space of the original line was dropped between the text of
\* chunk k and the start of chunk k + 1
DroppedBetween(chunks, k) ==
    chunks[k].startIndex + Len(chunks[k].text) < chunks[k + 1].startIndex

\* The texts of the chunks from the k-th on, a single space restored at each
\* boundary where white space was dropped
RECURSIVE RejoinFrom(_, _)
RejoinFrom(chunks, k) ==
    IF k = Len(chunks) THEN chunks[k].text
    ELSE chunks[k].text
         \o (IF DroppedBetween(chunks, k) THEN <<32>> ELSE <<>>)
         \o RejoinFrom(chunks, k + 1)

\* C27: for every logical line and content width, concatenating the text of
\* the line's chunks in order, with a single space restored at each
\* inter-chunk boundary where the original has a whitespace run, yields the
\* original line, also for lines with leading white space and lines with
\* runs of several spaces at a wrap point.
C27_WrapFidelity ==
    lastOp.op = "render" => RejoinFrom(CursorLineChunks, 1) = LineAt(Ed, cursorLine)

\* C27 for the lines that neither begin nor end with white space
C27_WrapFidelityInside ==
    (/\ lastOp.op = "render"
     /\ LineAt(Ed, cursorLine) # <<>>
     /\ Trim(LineAt(Ed, cursorLine)) = LineAt(Ed, cursorLine))
        => RejoinFrom(CursorLineChunks, 1) = LineAt(Ed, cursorLine)

\* Whether chunk k of the chunks covers the cursor column c: start <= c <
\* end, the right end inclusive for the last chunk
ChunkCovers(chunks, k, c) ==
    /\ chunks[k].startIndex <= c
    /\ IF k = Len(chunks) THEN c <= chunks[k].endIndex ELSE c < chunks[k].endIndex

\* The chunks of the cursor's line that cover the cursor column
CoveringChunks ==
    {k \in 1..Len(CursorLineChunks) : ChunkCovers(CursorLineChunks, k, cursorCol)}

\* The layout lines that layoutText marks as the cursor line
CursorLayoutLines ==
    {i \in 1..Len(layoutText(Ed, lastWidth)) : layoutText(Ed, lastWidth)[i].hasCursor}

\* The cursor's line is wrapped at the content width of the last render and
\* the cursor column lies within it
CursorOnWrappedLine ==
    /\ lastOp.op = "render"
    /\ visibleWidth(LineAt(Ed, cursorLine)) > lastWidth
    /\ cursorCol >= 0 /\ cursorCol <= Len(LineAt(Ed, cursorLine))

\* C28: for every wrapped logical line, content width >= 1 and cursor column
\* c with 0 <= c <= length of the line, exactly one chunk of the line covers
\* the cursor, and layout marks exactly one visual line as the cursor line.
C28_OneChunkHoldsCursor ==
    CursorOnWrappedLine =>
        Cardinality(CoveringChunks) = 1 /\ Cardinality(CursorLayoutLines) = 1

\* C28 for the lines that neither begin nor end with white space
C28_OneChunkHoldsCursorInside ==
    (CursorOnWrappedLine /\ Trim(LineAt(Ed, cursorLine)) = LineAt(Ed, cursorLine)) =>
        Cardinality(CoveringChunks) = 1 /\ Cardinality(CursorLayoutLines) = 1

\* No cursor column is covered by two chunks, and none marks two layout lines
C28_NoOverlap ==
    CursorOnWrappedLine =>
        Cardinality(CoveringChunks) <= 1 /\ Cardinality(CursorLayoutLines) <= 1

\* C29: when a logical line is wrapped, the first chunk starts at byte 0 of
\* the line and keeps the line's leading white space; a leading whitespace
\* run is discarded only at the start of the chunks after the first.
C29_FirstChunkKeepsLeadingSpace ==
    (lastOp.op = "render" /\ visibleWidth(LineAt(Ed, cursorLine)) > lastWidth) =>
        /\ CursorLineChunks[1].startIndex = 0
        /\ StartsWith(CursorLineChunks[1].text,
                      SubSeq(LineAt(Ed, cursorLine), 1,
                             Min(1, Len(LineAt(Ed, cursorLine))
                                    - Len(TrimStart(LineAt(Ed, cursorLine))))))

\* C29 for the lines that do not begin with white space: their first chunk
\* starts at byte 0
C29_FirstChunkStartsAtZero ==
    (/\ lastOp.op = "render"
     /\ visibleWidth(LineAt(Ed, cursorLine)) > lastWidth
     /\ TrimStart(LineAt(Ed, cursorLine)) = LineAt(Ed, cursorLine))
        => CursorLineChunks[1].startIndex = 0

\* The last two operations were a cursorUp and the cursorDown after it
UpThenDown ==
    /\ lastOp.op = "handleInput" /\ lastOp.arg = KeyDown
    /\ log # <<>> /\ log[1].op = "cursorUp"

\* The editor with the cursor where it was before the cursorUp
BeforeUp == [Ed EXCEPT !.cursorLine = log[1].arg[1], !.cursorCol = log[1].arg[2]]

\* The visual lines at the width of the last render; the two arrows leave
\* the buffer and the width as they were
VisualLinesNow == buildVisualLineMap(Ed, lastWidth)

\* Index of the visual line the cursor was on before the cursorUp, and the
\* cursor's column within it
OriginalVisualLine == findCurrentVisualLine(BeforeUp, VisualLinesNow)
OriginalVisualCol ==
    log[1].arg[2] - VisualLinesNow[OriginalVisualLine + 1].startCol

\* The cursorUp had a visual line to move onto, and that chunk is at least
\* as wide as the cursor's visual column
MovedOntoWideChunk ==
    /\ OriginalVisualLine >= 1
    /\ OriginalVisualCol >= 0
    /\ VisualLinesNow[OriginalVisualLine].length >= OriginalVisualCol

\* C26: with no history browsing and no horizontal input in between, a
\* cursorUp followed by a cursorDown returns the cursor to its original
\* visual line and visual column whenever the chunk it moved onto is at
\* least as wide as that column, also when the column equals that chunk's
\* length.
C26_UpDownReturns ==
    (UpThenDown /\ MovedOntoWideChunk) =>
        /\ findCurrentVisualLine(Ed, VisualLinesNow) = OriginalVisualLine
        /\ cursorCol - VisualLinesNow[OriginalVisualLine + 1].startCol = OriginalVisualCol

\* C26 when the chunk moved onto is wider than the cursor's visual column
C26_UpDownReturnsInside ==
    (/\ UpThenDown /\ MovedOntoWideChunk
     /\ VisualLinesNow[OriginalVisualLine].length > OriginalVisualCol) =>
        /\ findCurrentVisualLine(Ed, VisualLinesNow) = OriginalVisualLine
        /\ cursorCol - VisualLinesNow[OriginalVisualLine + 1].startCol = OriginalVisualCol

\* The visual line the editor finds for the cursor at the content width of
\* the last render
CursorVisualLine == findCurrentVisualLine(Ed, VisualLinesNow)

\* C30: after every render the visual line that contains the cursor lies
\* inside the rendered window: scrollOffset <= cursor visual line <
\* scrollOffset + max visible, for every buffer, cursor position and width.
C30_CursorLineInWindow ==
    lastOp.op = "render" =>
        /\ scrollOffset <= CursorVisualLine
        /\ CursorVisualLine < scrollOffset + MaxVisibleOfLastRender

\* C30 for the cursor positions that some chunk covers
C30_CoveredCursorInWindow ==
    (/\ lastOp.op = "render"
     /\ \E i \in 0..(Len(VisualLinesNow) - 1) : HoldsCursor(Ed, VisualLinesNow, i))
        => /\ scrollOffset <= CursorVisualLine
           /\ CursorVisualLine < scrollOffset + MaxVisibleOfLastRender

\* The overlay is active before the step
OverlayIsActive == isAutocompleting /\ autocompleteList # NoList

\* The step is handleInput of selectUp, selectDown or selectCancel
CaptureStep ==
    /\ OverlayIsActive
    /\ lastOp'.op = "handleInput"
    /\ lastOp'.arg \in {KeyUp, KeyDown, KeyEscape}

\* The step leaves the buffer, the cursor, the history and the paste table
\* alone, calls no sink, and leaves the overlay inactive after selectCancel
\* and active after selectUp and selectDown
CaptureEffect ==
    /\ lines' = lines /\ cursorLine' = cursorLine /\ cursorCol' = cursorCol
    /\ history' = history /\ historyIndex' = historyIndex
    /\ pastes' = pastes
    /\ changeCalls' = <<>> /\ submitCalls' = <<>>
    /\ isAutocompleting' = (lastOp'.arg # KeyEscape)

C31_WitnessDown ==
    /\ lastOp.op = "handleInput" /\ lastOp.arg = KeyDown
    /\ isAutocompleting /\ autocompleteList.selectedIndex > 0
    /\ changeCalls = <<>>

\* The width of the last render
RenderedWidth == lastOp.arg[1]

\* min(p, floor((W-1)/2)) and max(1, W - 2 * padding_x) for the configured
\* padding and the width of the last render
ExpectedPadding == Min(paddingX, (RenderedWidth - 1) \div 2)
ExpectedContentWidth == Max(1, RenderedWidth - 2 * ExpectedPadding)

\* The content row of the buffer "a": the left padding, "a", the fill up
\* to the content width and the right padding
PaddedRowOfA ==
    Repeat(32, ExpectedPadding) \o <<97>>
    \o Repeat(32, ExpectedContentWidth - 1) \o Repeat(32, ExpectedPadding)

\* C32: for every width W >= 1 and configured padding p >= 0, render uses
\* padding_x = min(p, floor((W-1)/2)) and content_width = max(1, W - 2 *
\* padding_x), so that content_width >= 1 and content_width + 2 * padding_x
\* = W.
C32_PaddingAndContentWidth ==
    lastOp.op = "render" =>
        /\ paddingX >= 0
        /\ lastWidth = ExpectedContentWidth
        /\ lastWidth >= 1
        /\ lastWidth + 2 * ExpectedPadding = RenderedWidth
        /\ lines = << <<97>> >> => frame[2].text = PaddedRowOfA

\* The buffer "a" has been rendered at width 4 with the padding configured
\* as 3: the padding used is 1 and the content width 2
C32_Witness ==
    /\ lastOp.op = "render" /\ RenderedWidth = 4
    /\ paddingX = 3 /\ lastWidth = 2
    /\ lines = << <<97>> >>
    /\ frame[2].text = <<32, 97, 32, 32>>

\* The keys of the paste table, in insertion order, are 1, 2, 3, ... and the
\* counter is the last of them
IdsInOrder ==
    /\ Len(pastes) = pasteCounter
    /\ \A i \in 1..Len(pastes) : pastes[i].id = i

\* The step stores at least one paste and reaches no submit
StoresPaste ==
    /\ lastOp'.op = "handleInput"
    /\ pasteCounter' > pasteCounter

\* Every entry of the table before the step is still there with its content,
\* and each entry the step adds has an id that was no key before
StoredUnderFreshIds ==
    /\ Len(pastes') > Len(pastes)
    /\ SubSeq(pastes', 1, Len(pastes)) = pastes
    /\ \A j \in (Len(pastes) + 1)..Len(pastes') :
           \A i \in 1..Len(pastes) : pastes'[j].id # pastes[i].id

\* C33: each large paste is stored under an id that is not a key of the
\* paste table at that moment, and the ids assigned between two submits are
\* 1, 2, 3, ... in order, so a large paste never overwrites a stored paste.
C33_PasteIdsFresh ==
    /\ [](IdsInOrder)
    /\ [][StoresPaste => StoredUnderFreshIds]_vars

\* Two large pastes are stored under the ids 1 and 2, the second one after
\* the buffer was emptied by setText, and the first is still in the table
C33_Witness ==
    /\ lastOp.op = "handleInput" /\ lastOp.arg = Bracketed(PasteLargeB)
    /\ pasteCounter = 2
    /\ pastes = << [id |-> 1, content |-> PasteLarge],
                   [id |-> 2, content |-> PasteLargeB] >>
    /\ lines = << PasteMarker(2, 11, 11) >>

\* C34: in every reachable state -1 <= historyIndex < length of history,
\* under any interleaving of addToHistory, setText, submit, editing and
\* cursorUp/cursorDown; historyIndex is -1 whenever the history is empty.
C34_HistoryIndexInRange ==
    /\ -1 <= historyIndex
    /\ historyIndex < Len(history)
    /\ history = <<>> => historyIndex = -1

\* The oldest of MaxIndexHistory entries is browsed: cursorUp has moved the
\* index to the last position of the history
C34_Witness ==
    /\ lastOp.op = "handleInput" /\ lastOp.arg = KeyUp
    /\ Len(history) >= 2
    /\ historyIndex = Len(history) - 1
    /\ JoinLines(lines) = history[Len(history)]

\* An entry was added while the oldest entry was browsed: the index still
\* points into the history
C34_WitnessAdd ==
    /\ lastOp.op = "addToHistory"
    /\ historyIndex = 0 /\ Len(history) = 2
    /\ JoinLines(lines) = history[2]

\* The editor with the cursor where it was before the arrow key
BeforeArrow == [Ed EXCEPT !.cursorLine = log[1].arg[1], !.cursorCol = log[1].arg[2]]

\* The visual line the cursor was on before the arrow key, when the history
\* was not browsed and some visual line covered the cursor; -1 otherwise
LineBeforeArrow ==
    IF /\ log # <<>> /\ log[1].arg[3] = -1
       /\ \E i \in 0..(Len(VisualLinesNow) - 1) : HoldsCursor(BeforeArrow, VisualLinesNow, i)
    THEN findCurrentVisualLine(BeforeArrow, VisualLinesNow)
    ELSE -1

\* The visual line the arrow key should have moved the cursor to: the one
\* above for cursorUp from below the first, the one below for cursorDown
\* from above the last; -1 when the claim says nothing
LineExpected(before, lineCount) ==
    IF before = -1 THEN -1
    ELSE IF log[1].op = "cursorUp"
    THEN (IF before > 0 THEN before - 1 ELSE -1)
    ELSE (IF before < lineCount - 1 THEN before + 1 ELSE -1)

MovedAsExpected(expected) ==
    expected # -1 => CursorVisualLine = expected

\* C35: when history is not being browsed and the cursor is on visual line
\* v > 0, cursorUp leaves the cursor on visual line v - 1; when v is not the
\* last visual line, cursorDown leaves it on visual line v + 1; also when
\* the carried-over column equals the length of a non-final chunk of a
\* wrapped line.
C35_MovesOneVisualLine ==
    MovedAsExpected(LineExpected(LineBeforeArrow, Len(VisualLinesNow)))

\* The buffer holds no white space
NoSpaces == \A i \in 1..Len(lines) : \A j \in 1..Len(lines[i]) : lines[i][j] # 32

\* C35 on buffers without white space
C35_MovesOneVisualLineNoSpaces ==
    NoSpaces => MovedAsExpected(LineExpected(LineBeforeArrow, Len(VisualLinesNow)))

\* The visual line the arrow key moves to is the last chunk of its logical
\* line, or is longer than the visual column the cursor had
CarriedInside(before, expected) ==
    \/ expected + 2 > Len(VisualLinesNow)
    \/ VisualLinesNow[expected + 2].logicalLine # VisualLinesNow[expected + 1].logicalLine
    \/ log[1].arg[2] - VisualLinesNow[before + 1].startCol
           < VisualLinesNow[expected + 1].length

MovedWhenInside(before, expected) ==
    (expected # -1 /\ CarriedInside(before, expected)) => CursorVisualLine = expected

\* C35 when the carried-over column falls inside the chunk moved to
C35_MovesOneVisualLineInside ==
    NoSpaces =>
        MovedWhenInside(LineBeforeArrow,
                        LineExpected(LineBeforeArrow, Len(VisualLinesNow)))

\* The text a chunk carries: the chunk without the paste markers
Carried(data) == ReplaceAll(ReplaceAll(data, PasteStart, <<>>), PasteEnd, <<>>)

\* The text carried by the events received so far, in their order
CarriedInOrder == Concat([i \in 1..Len(log) |-> Carried(log[i])])

\* Every event has delivered its text: no backslash is held and no paste is
\* open
AllDelivered == ~pendingShiftEnter /\ ~isInPaste

\* C36: text reaches the buffer in the order of the input events that
\* carried it: when a lone backslash event is followed by a bracketed paste
\* event (and the next key is not "\r"), the backslash appears in the buffer
\* before the pasted text.
C36_TextInEventOrder ==
    AllDelivered => JoinLines(lines) = CarriedInOrder

\* No paste chunk with a start marker follows a lone backslash directly
NoPasteOnBackslash ==
    \A i \in 1..(Len(log) - 1) :
        log[i] = <<92>> => ~Includes(log[i + 1], PasteStart)

\* C36 for the sequences of events in which no paste starts while a
\* backslash is held
C36_TextInEventOrderApart ==
    (AllDelivered /\ NoPasteOnBackslash) => JoinLines(lines) = CarriedInOrder

\* The last operation was a handleInput that reached the submit sink
Submitted37 == lastOp.op = "handleInput" /\ submitCalls # <<>>

\* The last two calls of the operation are the change sink with "" and then
\* the submit sink with the result, both with getText() = ""; the submit
\* sink was called once, and no earlier call is the change sink with ""
ChangeThenSubmit(n) ==
    /\ n >= 2
    /\ sinkCalls[n - 1] = [sink |-> "change", arg |-> <<>>, text |-> <<>>]
    /\ sinkCalls[n] = [sink |-> "submit", arg |-> submitCalls[1], text |-> <<>>]
    /\ Len(submitCalls) = 1
    /\ \A i \in 1..(n - 2) : sinkCalls[i].sink = "change" /\ sinkCalls[i].arg # <<>>

\* C37: on a submit, the change sink is invoked with the empty string before
\* the submit sink is invoked with the result, each exactly once, and when
\* either sink runs the editor has already been reset, so getText() called
\* from inside either sink returns the empty string.
C37_ChangeThenSubmitAfterReset ==
    Submitted37 => ChangeThenSubmit(Len(sinkCalls))

\* The two-line buffer "a\na" was submitted: the sinks were called in order
\* on the reset editor
C37_Witness ==
    /\ lastOp.op = "handleInput" /\ lastOp.arg = KeyEnter /\ ~lastOp.empty
    /\ sinkCalls = << [sink |-> "change", arg |-> <<>>, text |-> <<>>],
                      [sink |-> "submit", arg |-> <<97, 10, 97>>, text |-> <<>>] >>
    /\ lines = << <<>> >>

\* The submit key came in the chunk of a paste: the change sink received the
\* pasted text first, then "", then the submit sink received the result
C37_WitnessPaste ==
    /\ lastOp.op = "handleInput" /\ lastOp.arg = PasteLineThenSubmit
    /\ Len(sinkCalls) = 3
    /\ sinkCalls[1].sink = "change" /\ sinkCalls[1].arg # <<>>
    /\ sinkCalls[3].sink = "submit"

\* C38: immediately after any submit the autocomplete overlay is inactive,
\* also when the submit key is not a key the overlay captures
C38_SubmitClosesOverlay ==
    (lastOp.op = "handleInput" /\ submitCalls # <<>>) => ~isAutocompleting

\* The same under the default table, where the submit key is the confirm key
\* of the overlay
C38_SubmitClosesOverlayDefault ==
    (lastOp.op = "handleInput" /\ submitCalls # <<>> /\ submitKeys = {KeyEnter})
        => ~isAutocompleting

\* C39: in every reachable state the overlay is active if and only if a
\* selection list exists, the list of an active overlay holds at least one
\* suggestion, and the captured prefix is empty while the overlay is inactive
C39_OverlayFieldsAgree ==
    /\ isAutocompleting <=> autocompleteList # NoList
    /\ isAutocompleting => Len(autocompleteList.items) > 0
    /\ ~isAutocompleting => autocompletePrefix = <<>>

\* The overlay open on a list rebuilt for the prefix "/a" after a key
C39_Witness ==
    /\ lastOp.op = "handleInput" /\ lastOp.arg = <<97>>
    /\ isAutocompleting /\ autocompletePrefix = <<47, 97>>
    /\ Len(autocompleteList.items) > 0

\* The bytes of the chunks received so far, in order
DecodedStream == Concat([i \in 1..Len(log) |-> log[i].data])

\* A start marker in the stream with no end marker after it
StartUnmatched(stream) ==
    \E p \in 0..(Len(stream) - Len(PasteStart)) :
        /\ SubSeq(stream, p + 1, p + Len(PasteStart)) = PasteStart
        /\ ~Includes(JsSliceFrom(stream, p + Len(PasteStart)), PasteEnd)

\* Each nested call got a strictly shorter string than the call that made it
EachRedecodeShorter(calls) ==
    \A k \in 1..(Len(calls) - 1) : Len(calls[k + 1].data) < Len(calls[k].data)

\* The innermost call makes no further call, and the chain of calls ends as
\* handleInput(data) ends
DecodeReturns(entry) ==
    /\ ~Redecodes(entry.calls[Len(entry.calls)].editor,
                  entry.calls[Len(entry.calls)].data)
    /\ entry.same

\* C40: handleInput terminates on every chunk: each nested call of
\* handleInput on the bytes after an end marker gets a strictly shorter
\* string, the innermost call returns, and the editor is left in paste mode
\* only when a start marker of the stream has no end marker after it
C40_RedecodeTerminates ==
    /\ \A i \in 1..Len(log) :
           EachRedecodeShorter(log[i].calls) /\ DecodeReturns(log[i])
    /\ isInPaste => StartUnmatched(DecodedStream)

\* A chunk with several markers that caused two nested calls
C40_Witness ==
    /\ log # <<>>
    /\ log[Len(log)].data = TwoPastes
    /\ Len(log[Len(log)].calls) = 3
    /\ ~isInPaste

\* A chunk that left the editor in paste mode after a nested call
C40_WitnessInPaste ==
    /\ log # <<>>
    /\ log[Len(log)].data = PasteThenStart
    /\ Len(log[Len(log)].calls) = 2
    /\ isInPaste

====
